---- MODULE Spec2Model ----
(***************************************************************************)
(* A model of the EasyFS on-disk file system (easy-fs) and of the kernel   *)
(* task subsystem (os/src/task, os/src/sync, os/src/fs, os/src/syscall).   *)
(*                                                                         *)
(* The module holds several state machines over one set of variables;      *)
(* each specification moves the variables of one subsystem and leaves the  *)
(* others unchanged:                                                       *)
(*   SpecRT    clear / write_at / read_at round trips on one file          *)
(*   SpecFS    create / write_at / clear / open_file in any order          *)
(*   SpecPipe  one reader and one writer of a pipe, SpecPipeFair with the  *)
(*             fairness of the FIFO ready queue                            *)
(*   SpecProc  fork / exit / waitpid                                       *)
(*   SpecMutex MutexBlocking with the ready queue                          *)
(*   SpecSched the ready queue under suspend_current_and_run_next          *)
(*   SpecSig   signal delivery of one thread                               *)
(***************************************************************************)
EXTENDS Integers, Sequences, FiniteSets, TLC

VARIABLES
    \* ---- easy-fs: the block device seen through the block cache
    inode_bitmap,   \* blocks 1..IB: a sequence of bitmap blocks, each a sequence of words
    data_bitmap,    \* the data bitmap's blocks, same shape
    disk_inodes,    \* inode area: inode number -> DiskInode
    blocks,         \* data area: block id -> the block's cells (bytes or index entries)
    fsLast,         \* the last file-system call and what it returned
    rt,             \* the round-trip driver (efs_test's random_str_test)
    \* ---- os/src/fs/pipe.rs: one pipe, one reading and one writing thread
    pipe,           \* the PipeRingBuffer
    rd,             \* the thread in Pipe::read
    wr,             \* the thread in Pipe::write
    ph,             \* history: bytes accepted from the writer, delivered to the reader
    \* ---- os/src/syscall/process.rs: a process, its children and sys_waitpid
    children,       \* the caller's children vector: [pid, zombie, exit_code]
    pid_allocator,  \* PID_ALLOCATOR: [current, recycled]
    procLast,       \* the last call of the caller and how it ended
    \* ---- os/src/task: the ready queue and the processor; os/src/sync/mutex.rs
    ready_queue,    \* TASK_MANAGER.ready_queue
    current,        \* PROCESSOR.current (0 is None)
    idle,           \* TRUE while the idle control flow (run_tasks) has the hart
    task_status,    \* thread -> "None" (not created), "Ready", "Running", "Blocking"
    mutex,          \* a MutexBlocking: [locked, wait_queue]
    sh,             \* history of yields, dispatches, lock and unlock calls
    \* ---- os/src/task/signal.rs, os/src/syscall/process.rs: signals of one task
    task,           \* [signals, signal_mask, handling_sig, signal_actions,
                    \*  trap_ctx, trap_ctx_backup, frozen, killed]
    sg,             \* history of dispatches, mask changes and the last call
    \* ---- easy-fs/src/layout.rs: one DiskInode grown and cleared on its own
    dk,             \* [pc, inode, blks, pool, used, size0, v, calls, again, grow]
    \* ---- os/src/syscall/fs.rs, os/src/task/process.rs: the fd table of one process
    fd_table,       \* ProcessControlBlockInner.fd_table, "None" for an empty slot
    fdLast,         \* the last call on the fd table and the table before it
    \* ---- os/src/task/id.rs: the pid, kernel-stack and tid allocators on their own
    allocators,     \* kind -> RecycleAllocator
    al,             \* the ids held, and the last call and how it ended
    \* ---- os/src/task/process.rs, mod.rs, os/src/syscall/thread.rs: one process and its threads
    pr,             \* the process P: its threads, children, allocators, and the scheduler
    thLast,         \* the last call of a thread of P and the state before it
    \* ---- easy-fs/src/efs.rs: EasyFileSystem::create and open on devices of every size
    mkfs,           \* [pc, total_blocks, inode_bitmap_blocks, super_block, efs, ok]
    \* ---- the exclusive-access guards of two threads around the suspension points
    gd,             \* [cur, rq, th, held, ring, spin, bm, tk, at_call, conflict]
    \* ---- one Bitmap on its own
    bmp,            \* [bm, op, bit]
    \* ---- the references to the write end of a pipe
    pw,             \* [tab, ring, rd, wr, last]
    \* ---- os/src/timer.rs: the timer heap
    tm,             \* [timers, rq, n, last]
    \* ---- os/src/sync/mutex.rs: the two mutexes, with their holders
    lk,             \* [cur, rq, th, held, spin, bm, at_call, conflict, own]
    \* ---- easy-fs/src/efs.rs: alloc_data after create
    da              \* [dbm, id, full]

fsVars == <<inode_bitmap, data_bitmap, disk_inodes, blocks, fsLast, rt>>
pipeVars == <<pipe, rd, wr, ph>>
procVars == <<children, pid_allocator, procLast>>
schedVars == <<ready_queue, current, idle, task_status, mutex, sh>>
sigVars == <<task, sg>>
diskVars == <<dk>>
fdVars == <<fd_table, fdLast>>
allocVars == <<allocators, al>>
threadVars == <<pr, thLast>>
mkfsVars == <<mkfs>>
guardVars == <<gd>>
bitmapVars == <<bmp>>
pipeRefsVars == <<pw>>
timerVars == <<tm>>
lockVars == <<lk>>
dataAllocVars == <<da>>
notFs == <<pipeVars, procVars, schedVars, sigVars, diskVars, fdVars, allocVars, threadVars, mkfsVars, guardVars, bitmapVars, pipeRefsVars, timerVars, lockVars, dataAllocVars>>
notPipe == <<fsVars, procVars, schedVars, sigVars, diskVars, fdVars, allocVars, threadVars, mkfsVars, guardVars, bitmapVars, pipeRefsVars, timerVars, lockVars, dataAllocVars>>
notProc == <<fsVars, pipeVars, schedVars, sigVars, diskVars, fdVars, allocVars, threadVars, mkfsVars, guardVars, bitmapVars, pipeRefsVars, timerVars, lockVars, dataAllocVars>>
notSched == <<fsVars, pipeVars, procVars, sigVars, diskVars, fdVars, allocVars, threadVars, mkfsVars, guardVars, bitmapVars, pipeRefsVars, timerVars, lockVars, dataAllocVars>>
notSig == <<fsVars, pipeVars, procVars, schedVars, diskVars, fdVars, allocVars, threadVars, mkfsVars, guardVars, bitmapVars, pipeRefsVars, timerVars, lockVars, dataAllocVars>>
notDisk == <<fsVars, pipeVars, procVars, schedVars, sigVars, fdVars, allocVars, threadVars, mkfsVars, guardVars, bitmapVars, pipeRefsVars, timerVars, lockVars, dataAllocVars>>
notFsFd == <<pipeVars, procVars, schedVars, sigVars, diskVars, allocVars, threadVars, mkfsVars, guardVars, bitmapVars, pipeRefsVars, timerVars, lockVars, dataAllocVars>>
notFd == <<fsVars, pipeVars, procVars, schedVars, sigVars, diskVars, allocVars, threadVars, mkfsVars, guardVars, bitmapVars, pipeRefsVars, timerVars, lockVars, dataAllocVars>>
notAlloc == <<fsVars, pipeVars, procVars, schedVars, sigVars, diskVars, fdVars, threadVars, mkfsVars, guardVars, bitmapVars, pipeRefsVars, timerVars, lockVars, dataAllocVars>>
notThread == <<fsVars, pipeVars, procVars, schedVars, sigVars, diskVars, fdVars, allocVars, mkfsVars, guardVars, bitmapVars, pipeRefsVars, timerVars, lockVars, dataAllocVars>>
notMkfs == <<fsVars, pipeVars, procVars, schedVars, sigVars, diskVars, fdVars, allocVars, threadVars, guardVars, bitmapVars, pipeRefsVars, timerVars, lockVars, dataAllocVars>>
notGuard == <<fsVars, pipeVars, procVars, schedVars, sigVars, diskVars, fdVars, allocVars, threadVars, mkfsVars, bitmapVars, pipeRefsVars, timerVars, lockVars, dataAllocVars>>
notBitmap == <<fsVars, pipeVars, procVars, schedVars, sigVars, diskVars, fdVars, allocVars, threadVars, mkfsVars, guardVars, pipeRefsVars, timerVars, lockVars, dataAllocVars>>
notPipeRefs == <<fsVars, pipeVars, procVars, schedVars, sigVars, diskVars, fdVars, allocVars, threadVars, mkfsVars, guardVars, bitmapVars, timerVars, lockVars, dataAllocVars>>
notTimer == <<fsVars, pipeVars, procVars, schedVars, sigVars, diskVars, fdVars, allocVars, threadVars, mkfsVars, guardVars, bitmapVars, pipeRefsVars, lockVars, dataAllocVars>>
notLock == <<fsVars, pipeVars, procVars, schedVars, sigVars, diskVars, fdVars, allocVars, threadVars, mkfsVars, guardVars, bitmapVars, pipeRefsVars, timerVars, dataAllocVars>>
notDataAlloc == <<fsVars, pipeVars, procVars, schedVars, sigVars, diskVars, fdVars, allocVars, threadVars, mkfsVars, guardVars, bitmapVars, pipeRefsVars, timerVars, lockVars>>

----------------------------------------------------------------------------
(* Geometry.  The source's sizes (512-byte blocks, 28 direct entries, 128  *)
(* entries per index block, 64 words of 64 bits per bitmap block, 32-byte  *)
(* directory entries) are scaled down so that files reach the indirect1    *)
(* and indirect2 regions with a handful of bytes.                          *)

BLOCK_SIZE == 2
INODE_DIRECT_COUNT == 2
\* one index entry per cell of a block (the source packs BLOCK_SIZE / 4 u32 entries)
INODE_INDIRECT1_COUNT == BLOCK_SIZE
INODE_INDIRECT2_COUNT == INODE_INDIRECT1_COUNT * INODE_INDIRECT1_COUNT
DIRECT_BOUND == INODE_DIRECT_COUNT
INDIRECT1_BOUND == DIRECT_BOUND + INODE_INDIRECT1_COUNT
INDIRECT2_BOUND == INDIRECT1_BOUND + INODE_INDIRECT2_COUNT
DIR_ENTRY_SIZE == 2

BITMAP_BLOCK_SIZE == 2
BITMAP_SIZE == 4
BLOCK_BITS == BITMAP_BLOCK_SIZE * BITMAP_SIZE

TotalBlocks == 31
InodeBitmapBlocks == 1
INODES_PER_BLOCK == 4

\* F applied to the value of v: a local value that is computed once and used
\* several times (the bound x holds the value, where F(v) would hold the expression)
With(v, F(_)) == CHOOSE y \in {F(x) : x \in {v}} : TRUE

MinOf(a, b) == IF a < b THEN a ELSE b
MaxOf(a, b) == IF a > b THEN a ELSE b
Least(S) == CHOOSE x \in S : \A y \in S : x <= y

\* EasyFileSystem::create's arithmetic
InodeNum == InodeBitmapBlocks * BLOCK_BITS
InodeAreaBlocks == (InodeNum + INODES_PER_BLOCK - 1) \div INODES_PER_BLOCK
InodeTotalBlocks == InodeBitmapBlocks + InodeAreaBlocks
DataTotalBlocks == TotalBlocks - 1 - InodeTotalBlocks
DataBitmapBlocks == (DataTotalBlocks + BLOCK_BITS) \div (BLOCK_BITS + 1)
DataAreaBlocks == DataTotalBlocks - DataBitmapBlocks
DataAreaStart == 1 + InodeTotalBlocks + DataBitmapBlocks

\* every block id the data bitmap can hand out
DataBlockIds == DataAreaStart .. (DataAreaStart + DataBitmapBlocks * BLOCK_BITS - 1)
ZeroBlock == [i \in 1..BLOCK_SIZE |-> 0]

----------------------------------------------------------------------------
(* bitmap.rs *)

WordMax == 2^BITMAP_SIZE - 1

RECURSIVE trailing_ones(_)
trailing_ones(w) == IF w % 2 = 1 THEN 1 + trailing_ones(w \div 2) ELSE 0

TestBit(w, k) == (w \div (2^k)) % 2 = 1

NoneBit == -1

EmptyBitmap(nblocks) == [b \in 1..nblocks |-> [p \in 1..BITMAP_BLOCK_SIZE |-> 0]]

RECURSIVE BitmapAllocFrom(_, _)
BitmapAllocFrom(bm, b) ==
    IF b > Len(bm) THEN [bit |-> NoneBit, bm |-> bm]
    ELSE LET free == {p \in 1..Len(bm[b]) : bm[b][p] # WordMax} IN
         IF free = {} THEN BitmapAllocFrom(bm, b + 1)
         ELSE LET pos == Least(free)
                  inner_pos == trailing_ones(bm[b][pos])
              IN [bit |-> (b - 1) * BLOCK_BITS + (pos - 1) * BITMAP_SIZE + inner_pos,
                  bm  |-> [bm EXCEPT ![b][pos] = @ + 2^inner_pos]]

\* a faulty alloc, which looks at the last block only
BitmapAlloc_LastBlock(bm) == BitmapAllocFrom(bm, Len(bm))

BitmapAlloc(bm) == BitmapAllocFrom(bm, 1)

decomposition(bit) ==
    [block_id   |-> bit \div BLOCK_BITS,
     bitmap_pos |-> (bit % BLOCK_BITS) \div BITMAP_SIZE,
     bit_pos    |-> (bit % BLOCK_BITS) % BITMAP_SIZE]

\* the bit of a bitmap, as dealloc's assertion reads it
BitmapTest(bm, bit) ==
    LET d == decomposition(bit) IN
    /\ bit >= 0
    /\ d.block_id + 1 <= Len(bm)
    /\ TestBit(bm[d.block_id + 1][d.bitmap_pos + 1], d.bit_pos)

BitmapDealloc(bm, bit) ==
    LET d == decomposition(bit) IN
    [bm EXCEPT ![d.block_id + 1][d.bitmap_pos + 1] = @ - 2^d.bit_pos]

----------------------------------------------------------------------------
(* layout.rs: DiskInode *)

FileType == "File"
DirType == "Directory"

InitInode(type) ==
    [size |-> 0, direct |-> [i \in 1..INODE_DIRECT_COUNT |-> 0],
     indirect1 |-> 0, indirect2 |-> 0, type_ |-> type]

get_block_id(ino, inner_id, blks) ==
    IF inner_id < DIRECT_BOUND THEN ino.direct[inner_id + 1]
    ELSE IF inner_id < INDIRECT1_BOUND
         THEN blks[ino.indirect1][inner_id - DIRECT_BOUND + 1]
         ELSE LET id == inner_id - INDIRECT1_BOUND
                  indirect1_block_id == blks[ino.indirect2][(id \div INODE_INDIRECT1_COUNT) + 1]
              IN blks[indirect1_block_id][(id % INODE_INDIRECT1_COUNT) + 1]

data_blocks(size) == (size + BLOCK_SIZE - 1) \div BLOCK_SIZE

total_blocks(size) ==
    LET db == data_blocks(size) IN
    db + (IF db > DIRECT_BOUND THEN 1 ELSE 0)
       + (IF db > INDIRECT1_BOUND
          THEN 1 + (db - INDIRECT1_BOUND + INODE_INDIRECT1_COUNT - 1) \div INODE_INDIRECT1_COUNT
          ELSE 0)

\* a faulty blocks_num_needed, which counts the data blocks only
blocks_num_needed_Data(ino, new_size) == data_blocks(new_size) - data_blocks(ino.size)

blocks_num_needed(ino, new_size) == total_blocks(new_size) - total_blocks(ino.size)

\* arr[cur .. lim-1] (0-based) := the ids of nb that follow its first k
FillEntries(arr, cur, lim, nb, k) ==
    [i \in 1..Len(arr) |->
        IF cur <= i - 1 /\ i - 1 < lim THEN nb[k + (i - 1 - cur) + 1] ELSE arr[i]]

\* increase_size's last loop: the entries of the indirect2 region
RECURSIVE FillIndirect2(_, _, _, _, _, _, _, _)
FillIndirect2(blks, ind2, a0, b0, a1, b1, nb, k) ==
    IF (a0 < a1) \/ (a0 = a1 /\ b0 < b1)
    THEN LET blksA == IF b0 = 0 THEN [blks EXCEPT ![ind2][a0 + 1] = nb[k + 1]] ELSE blks
             kA    == IF b0 = 0 THEN k + 1 ELSE k
             sub   == blksA[ind2][a0 + 1]
             blksB == [blksA EXCEPT ![sub][b0 + 1] = nb[kA + 1]]
             wrap  == (b0 + 1 = INODE_INDIRECT1_COUNT)
         IN FillIndirect2(blksB, ind2, IF wrap THEN a0 + 1 ELSE a0,
                          IF wrap THEN 0 ELSE b0 + 1, a1, b1, nb, kA + 1)
    ELSE [blocks |-> blks, k |-> k]

increase_size(ino, new_size, nb, blks) ==
    LET cur0 == data_blocks(ino.size)
        tot0 == data_blocks(new_size)
        lim1 == MinOf(tot0, INODE_DIRECT_COUNT)
        k1   == IF cur0 < lim1 THEN lim1 - cur0 ELSE 0
        cur1 == IF cur0 < lim1 THEN lim1 ELSE cur0
        ino1 == [ino EXCEPT !.size = new_size,
                            !.direct = FillEntries(ino.direct, cur0, lim1, nb, 0)]
    IN
    IF tot0 <= INODE_DIRECT_COUNT
    THEN [inode |-> ino1, blocks |-> blks, used |-> k1]
    ELSE
    LET ind1 == IF cur1 = INODE_DIRECT_COUNT THEN nb[k1 + 1] ELSE ino.indirect1
        k2   == IF cur1 = INODE_DIRECT_COUNT THEN k1 + 1 ELSE k1
        cur2 == cur1 - INODE_DIRECT_COUNT
        tot2 == tot0 - INODE_DIRECT_COUNT
        lim2 == MinOf(tot2, INODE_INDIRECT1_COUNT)
        k3   == IF cur2 < lim2 THEN k2 + (lim2 - cur2) ELSE k2
        cur3 == IF cur2 < lim2 THEN lim2 ELSE cur2
        blks2 == [blks EXCEPT ![ind1] = FillEntries(blks[ind1], cur2, lim2, nb, k2)]
        ino2 == [ino1 EXCEPT !.indirect1 = ind1]
    IN
    IF tot2 <= INODE_INDIRECT1_COUNT
    THEN [inode |-> ino2, blocks |-> blks2, used |-> k3]
    ELSE
    LET ind2 == IF cur3 = INODE_INDIRECT1_COUNT THEN nb[k3 + 1] ELSE ino.indirect2
        k4   == IF cur3 = INODE_INDIRECT1_COUNT THEN k3 + 1 ELSE k3
        cur4 == cur3 - INODE_INDIRECT1_COUNT
        tot4 == tot2 - INODE_INDIRECT1_COUNT
        r    == FillIndirect2(blks2, ind2,
                              cur4 \div INODE_INDIRECT1_COUNT, cur4 % INODE_INDIRECT1_COUNT,
                              tot4 \div INODE_INDIRECT1_COUNT, tot4 % INODE_INDIRECT1_COUNT,
                              nb, k4)
    IN [inode |-> [ino2 EXCEPT !.indirect2 = ind2], blocks |-> r.blocks, used |-> r.k]

\* clear_size: the full indirect1 blocks of the indirect2 region, a .. a1-1
RECURSIVE ClearFullIndirect1(_, _, _, _)
\* a faulty scan, which returns the entries of the full indirect1 blocks but
\* not the indirect1 blocks themselves
ClearFullIndirect1_NoIndex(blks, i2blk, a, a1) ==
    IF a >= a1 THEN <<>>
    ELSE [i \in 1..INODE_INDIRECT1_COUNT |-> blks[i2blk[a + 1]][i]]
         \o ClearFullIndirect1(blks, i2blk, a + 1, a1)

ClearFullIndirect1(blks, i2blk, a, a1) ==
    IF a >= a1 THEN <<>>
    ELSE <<i2blk[a + 1]>>
         \o [i \in 1..INODE_INDIRECT1_COUNT |-> blks[i2blk[a + 1]][i]]
         \o ClearFullIndirect1(blks, i2blk, a + 1, a1)

clear_size(ino, blks) ==
    LET db   == data_blocks(ino.size)
        lim1 == MinOf(db, INODE_DIRECT_COUNT)
        v1   == [i \in 1..lim1 |-> ino.direct[i]]
        ino1 == [ino EXCEPT !.size = 0,
                            !.direct = [i \in 1..INODE_DIRECT_COUNT |->
                                           IF i <= lim1 THEN 0 ELSE ino.direct[i]]]
    IN
    IF db <= INODE_DIRECT_COUNT
    THEN [inode |-> ino1, blocks |-> blks, v |-> v1]
    ELSE
    LET db2   == db - INODE_DIRECT_COUNT
        lim2  == MinOf(db2, INODE_INDIRECT1_COUNT)
        i1blk == blks[ino.indirect1]
        v2    == v1 \o <<ino.indirect1>> \o [i \in 1..lim2 |-> i1blk[i]]
        blks2 == [blks EXCEPT ![ino.indirect1] =
                     [i \in 1..Len(i1blk) |-> IF i <= lim2 THEN 0 ELSE i1blk[i]]]
        ino2  == [ino1 EXCEPT !.indirect1 = 0]
    IN
    IF db2 <= INODE_INDIRECT1_COUNT
    THEN [inode |-> ino2, blocks |-> blks2, v |-> v2]
    ELSE
    LET db3   == db2 - INODE_INDIRECT1_COUNT
        a1    == db3 \div INODE_INDIRECT1_COUNT
        b1    == db3 % INODE_INDIRECT1_COUNT
        i2blk == blks2[ino.indirect2]
        last  == IF b1 > 0
                 THEN <<i2blk[a1 + 1]>> \o [i \in 1..b1 |-> blks2[i2blk[a1 + 1]][i]]
                 ELSE <<>>
        v3    == v2 \o <<ino.indirect2>> \o ClearFullIndirect1(blks2, i2blk, 0, a1) \o last
    IN [inode |-> [ino2 EXCEPT !.indirect2 = 0], blocks |-> blks2, v |-> v3]

RECURSIVE ReadLoop(_, _, _, _, _)
\* a faulty read loop, which copies from the first byte of every block and so
\* ignores start % BLOCK_SIZE: the round trip must not survive it
ReadLoop_NoOffset(ino, blks, start, start_block, end) ==
    LET end_current_block == MinOf((start_block + 1) * BLOCK_SIZE, end)
        block_read_size   == end_current_block - start
        blk   == blks[get_block_id(ino, start_block, blks)]
        piece == [i \in 1..block_read_size |-> blk[i]]
    IN IF end_current_block = end THEN piece
       ELSE piece \o ReadLoop(ino, blks, end_current_block, start_block + 1, end)

ReadLoop(ino, blks, start, start_block, end) ==
    LET end_current_block == MinOf((start_block + 1) * BLOCK_SIZE, end)
        block_read_size   == end_current_block - start
        blk   == blks[get_block_id(ino, start_block, blks)]
        piece == [i \in 1..block_read_size |-> blk[(start % BLOCK_SIZE) + i]]
    IN IF end_current_block = end THEN piece
       ELSE piece \o ReadLoop(ino, blks, end_current_block, start_block + 1, end)

\* DiskInode::read_at with a buffer of len bytes: the bytes read (their count is the result)
read_at(ino, offset, len, blks) ==
    LET end == MinOf(offset + len, ino.size) IN
    IF offset >= end THEN <<>>
    ELSE ReadLoop(ino, blks, offset, offset \div BLOCK_SIZE, end)

RECURSIVE WriteLoop(_, _, _, _, _, _, _)
WriteLoop(ino, blks, buf, start, start_block, end, write_size) ==
    LET end_current_block == MinOf((start_block + 1) * BLOCK_SIZE, end)
        block_write_size  == end_current_block - start
        id    == get_block_id(ino, start_block, blks)
        blks2 == [blks EXCEPT ![id] =
                    [i \in 1..BLOCK_SIZE |->
                        IF (start % BLOCK_SIZE) < i /\ i <= (start % BLOCK_SIZE) + block_write_size
                        THEN buf[write_size + i - (start % BLOCK_SIZE)]
                        ELSE blks[id][i]]]
    IN IF end_current_block = end
       THEN [blocks |-> blks2, n |-> write_size + block_write_size]
       ELSE WriteLoop(ino, blks2, buf, end_current_block, start_block + 1, end,
                      write_size + block_write_size)

\* DiskInode::write_at: never grows the inode
write_at(ino, offset, buf, blks) ==
    LET end == MinOf(offset + Len(buf), ino.size) IN
    IF offset >= end THEN [blocks |-> blks, n |-> 0]
    ELSE WriteLoop(ino, blks, buf, offset, offset \div BLOCK_SIZE, end, 0)

(* layout.rs: DirEntry, name in the leading cells, inode number in the last *)
DirEntryBytes(name, inode_number) ==
    [i \in 1..DIR_ENTRY_SIZE |->
        IF i = 1 THEN name ELSE IF i = DIR_ENTRY_SIZE THEN inode_number ELSE 0]
DirEntryName(bytes) == bytes[1]
DirEntryInodeNumber(bytes) == bytes[DIR_ENTRY_SIZE]

----------------------------------------------------------------------------
(* efs.rs and vfs.rs.  S is the file system's state on the device:         *)
(* [ibm, dbm, inodes, blocks].  A result's ok is FALSE where the code      *)
(* panics (an unwrap of a failed alloc, a failed assertion).               *)

NoneInode == -1
ROOT_INODE == 0

FsState == [ibm |-> inode_bitmap, dbm |-> data_bitmap, inodes |-> disk_inodes, blocks |-> blocks]

alloc_inode(S) ==
    With(BitmapAlloc(S.ibm), LAMBDA r :
        IF r.bit = NoneBit THEN [ok |-> FALSE, id |-> NoneInode, S |-> S]
        ELSE [ok |-> TRUE, id |-> r.bit, S |-> [S EXCEPT !.ibm = r.bm]])

get_data_block_id(data_block_id) == DataAreaStart + data_block_id

\* a faulty alloc_data, which hands out a block without marking it in the bitmap
alloc_data_NoMark(S) ==
    With(BitmapAlloc(S.dbm), LAMBDA r :
        IF r.bit = NoneBit THEN [ok |-> FALSE, id |-> 0, S |-> S]
        ELSE [ok |-> TRUE, id |-> get_data_block_id(r.bit), S |-> S])

alloc_data(S) ==
    With(BitmapAlloc(S.dbm), LAMBDA r :
        IF r.bit = NoneBit THEN [ok |-> FALSE, id |-> 0, S |-> S]
        ELSE [ok |-> TRUE, id |-> get_data_block_id(r.bit), S |-> [S EXCEPT !.dbm = r.bm]])

\* a faulty dealloc_data, which frees the block without erasing it
dealloc_data_NoErase(S, block_id) ==
    IF block_id >= DataAreaStart /\ BitmapTest(S.dbm, block_id - DataAreaStart)
    THEN [ok |-> TRUE,
          S  |-> [S EXCEPT !.dbm = BitmapDealloc(S.dbm, block_id - DataAreaStart)]]
    ELSE [ok |-> FALSE, S |-> S]

dealloc_data(S, block_id) ==
    IF block_id >= DataAreaStart /\ BitmapTest(S.dbm, block_id - DataAreaStart)
    THEN [ok |-> TRUE,
          S  |-> [S EXCEPT !.blocks[block_id] = ZeroBlock,
                           !.dbm = BitmapDealloc(S.dbm, block_id - DataAreaStart)]]
    ELSE [ok |-> FALSE, S |-> S]

\* a faulty loop, which allocates one block and hands it out n times
AllocDataN_Repeat(S, n) ==
    IF n = 0 THEN [ok |-> TRUE, ids |-> <<>>, S |-> S]
    ELSE With(alloc_data(S), LAMBDA a :
             [ok |-> a.ok, ids |-> IF a.ok THEN [i \in 1..n |-> a.id] ELSE <<>>,
              S |-> IF a.ok THEN a.S ELSE S])

\* Inode::increase_size's loop of alloc_data calls
RECURSIVE AllocDataN(_, _)
AllocDataN(S, n) ==
    IF n = 0 THEN [ok |-> TRUE, ids |-> <<>>, S |-> S]
    ELSE With(alloc_data(S), LAMBDA a :
             IF ~a.ok THEN [ok |-> FALSE, ids |-> <<>>, S |-> S]
             ELSE With(AllocDataN(a.S, n - 1), LAMBDA rest :
                      [ok |-> rest.ok, ids |-> <<a.id>> \o rest.ids, S |-> rest.S]))

Inode_increase_size(S, id, new_size) ==
    LET ino == S.inodes[id] IN
    IF new_size < ino.size THEN [ok |-> TRUE, S |-> S]
    ELSE With(AllocDataN(S, blocks_num_needed(ino, new_size)), LAMBDA a :
             IF ~a.ok THEN [ok |-> FALSE, S |-> S]
             ELSE With(increase_size(ino, new_size, a.ids, a.S.blocks), LAMBDA r :
                      [ok |-> TRUE,
                       S  |-> [a.S EXCEPT !.inodes[id] = r.inode, !.blocks = r.blocks]]))

Inode_read_at(S, id, offset, len) == read_at(S.inodes[id], offset, len, S.blocks)

\* a faulty Inode::write_at, which does not grow the file first
Inode_write_at_NoGrow(S, id, offset, buf) ==
    With(write_at(S.inodes[id], offset, buf, S.blocks), LAMBDA w :
        [ok |-> TRUE, n |-> w.n, S |-> [S EXCEPT !.blocks = w.blocks]])

Inode_write_at(S, id, offset, buf) ==
    With(Inode_increase_size(S, id, offset + Len(buf)), LAMBDA g :
        IF ~g.ok THEN [ok |-> FALSE, n |-> 0, S |-> S]
        ELSE With(write_at(g.S.inodes[id], offset, buf, g.S.blocks), LAMBDA w :
                 [ok |-> TRUE, n |-> w.n, S |-> [g.S EXCEPT !.blocks = w.blocks]]))

\* Inode::clear's loop of dealloc_data calls
RECURSIVE DeallocAll(_, _)
DeallocAll(S, v) ==
    IF v = <<>> THEN [ok |-> TRUE, S |-> S]
    ELSE With(dealloc_data(S, Head(v)), LAMBDA d :
             IF ~d.ok THEN [ok |-> FALSE, S |-> S] ELSE DeallocAll(d.S, Tail(v)))

\* a faulty clear, which empties the inode and frees none of its blocks
Inode_clear_NoDealloc(S, id) ==
    With(clear_size(S.inodes[id], S.blocks), LAMBDA c :
        [ok |-> TRUE, S |-> [S EXCEPT !.inodes[id] = c.inode, !.blocks = c.blocks]])

Inode_clear(S, id) ==
    With(clear_size(S.inodes[id], S.blocks), LAMBDA c :
        IF Len(c.v) # total_blocks(S.inodes[id].size) THEN [ok |-> FALSE, S |-> S]
        ELSE DeallocAll([S EXCEPT !.inodes[id] = c.inode, !.blocks = c.blocks], c.v))

FileCount(S) == S.inodes[ROOT_INODE].size \div DIR_ENTRY_SIZE
DirEntryAt(S, i) == read_at(S.inodes[ROOT_INODE], DIR_ENTRY_SIZE * i, DIR_ENTRY_SIZE, S.blocks)

find_inode_id(S, name) ==
    With({i \in 0..(FileCount(S) - 1) : DirEntryName(DirEntryAt(S, i)) = name}, LAMBDA hits :
        IF hits = {} THEN NoneInode ELSE DirEntryInodeNumber(DirEntryAt(S, Least(hits))))

find(S, name) == find_inode_id(S, name)

\* a faulty listing, which starts at the second directory entry
ls_SkipFirst(S) == [i \in 1..(FileCount(S) - 1) |-> DirEntryName(DirEntryAt(S, i))]

ls(S) == [i \in 1..FileCount(S) |-> DirEntryName(DirEntryAt(S, i - 1))]

\* the tail of create: a new inode and a new last directory entry
create_new(S, name) ==
    With(alloc_inode(S), LAMBDA a :
         IF ~a.ok THEN [ok |-> FALSE, ret |-> NoneInode, S |-> S]
         ELSE With(Inode_increase_size([a.S EXCEPT !.inodes[a.id] = InitInode(FileType)],
                                       ROOT_INODE, S.inodes[ROOT_INODE].size + DIR_ENTRY_SIZE),
                   LAMBDA g :
                  IF ~g.ok THEN [ok |-> FALSE, ret |-> NoneInode, S |-> S]
                  ELSE [ok  |-> TRUE,
                        ret |-> a.id,
                        S   |-> [g.S EXCEPT !.blocks =
                                   write_at(g.S.inodes[ROOT_INODE], S.inodes[ROOT_INODE].size,
                                            DirEntryBytes(name, a.id), g.S.blocks).blocks]]))

\* a faulty create, which does not look for the name first
create_NoFind(S, name) == create_new(S, name)

create(S, name) ==
    IF find_inode_id(S, name) # NoneInode THEN [ok |-> TRUE, ret |-> NoneInode, S |-> S]
    ELSE create_new(S, name)

\* EasyFileSystem::create: every block zeroed, inode 0 allocated as the root directory
MkfsState ==
    LET S0 == [ibm |-> EmptyBitmap(InodeBitmapBlocks), dbm |-> EmptyBitmap(DataBitmapBlocks),
               inodes |-> [i \in 0..(InodeNum - 1) |-> InitInode(FileType)],
               blocks |-> [b \in DataBlockIds |-> ZeroBlock]]
        a  == alloc_inode(S0)
    IN [a.S EXCEPT !.inodes[ROOT_INODE] = InitInode(DirType)]

----------------------------------------------------------------------------
(* os/src/fs/inode.rs: OpenFlags and open_file *)

READ_ONLY == 0
WRITE_ONLY == 1
READ_WRITE == 2
CREATE == 512
TRUNCATE == 1024

Contains(flags, flag) == (flags \div flag) % 2 = 1

read_write(flags) ==
    IF flags = 0 THEN <<TRUE, FALSE>>
    ELSE IF Contains(flags, WRITE_ONLY) THEN <<FALSE, TRUE>>
    ELSE <<TRUE, TRUE>>

open_file(S, name, flags) ==
    IF Contains(flags, CREATE)
    THEN With(find(S, name), LAMBDA inode :
             IF inode # NoneInode
             THEN With(Inode_clear(S, inode), LAMBDA c : [ok |-> c.ok, ret |-> inode, S |-> c.S])
             ELSE create(S, name))
    ELSE IF Contains(flags, TRUNCATE)
    THEN With(find(S, name), LAMBDA inode :
             IF inode # NoneInode
             THEN With(Inode_clear(S, inode), LAMBDA c : [ok |-> c.ok, ret |-> inode, S |-> c.S])
             ELSE [ok |-> TRUE, ret |-> NoneInode, S |-> S])
    ELSE [ok |-> TRUE, ret |-> NoneInode, S |-> S]

----------------------------------------------------------------------------
(* The file-system state machines *)

Names == {1, 2}
Bytes == {1, 2}

SetFs(S) ==
    /\ inode_bitmap' = S.ibm
    /\ data_bitmap' = S.dbm
    /\ disk_inodes' = S.inodes
    /\ blocks' = S.blocks

NoCall == [op |-> "none", name |-> 0, flags |-> 0, ret |-> NoneInode,
           existed |-> NoneInode, before |-> <<>>, n |-> 0,
           offset |-> 0, zeroed |-> TRUE, reused |-> FALSE, freed |-> {},
           refs |-> {}, dir |-> <<>>, created |-> <<>>, buf |-> <<>>]
RtIdle == [pc |-> "create", C |-> <<>>, whole |-> <<>>, acc |-> <<>>, off |-> 0]

FsInit ==
    /\ inode_bitmap = MkfsState.ibm
    /\ data_bitmap = MkfsState.dbm
    /\ disk_inodes = MkfsState.inodes
    /\ blocks = MkfsState.blocks
    /\ fsLast = NoCall
    /\ rt = RtIdle

(* SpecRT: efs_test's random_str_test on filea, for every content up to MaxLen bytes *)
MaxLen == 13
ChunkSize == 3
Contents == UNION {[1..n -> Bytes] : n \in 0..MaxLen}
FileA == find(FsState, 1)

RtCreate ==
    /\ rt.pc = "create"
    /\ \E c1 \in {create(FsState, 1)} :
          /\ c1.ok
          /\ \E c2 \in {create(c1.S, 2)} : c2.ok /\ SetFs(c2.S)
    /\ rt' = [rt EXCEPT !.pc = "idle"]
    /\ UNCHANGED fsLast
    /\ UNCHANGED notFs

RtClear ==
    /\ rt.pc = "idle"
    /\ \E c \in {Inode_clear(FsState, FileA)} : c.ok /\ SetFs(c.S)
    /\ rt' = [rt EXCEPT !.pc = "cleared"]
    /\ UNCHANGED fsLast
    /\ UNCHANGED notFs

RtWrite ==
    /\ rt.pc = "cleared"
    /\ \E C \in Contents :
          \E w \in {Inode_write_at(FsState, FileA, 0, C)} :
             /\ w.ok
             /\ SetFs(w.S)
             /\ rt' = [rt EXCEPT !.pc = "written", !.C = C]
    /\ UNCHANGED fsLast
    /\ UNCHANGED notFs

RtReadWhole ==
    /\ rt.pc = "written"
    /\ \E extra \in 0..1 :
          rt' = [rt EXCEPT !.pc = "chunks",
                           !.whole = Inode_read_at(FsState, FileA, 0, Len(rt.C) + extra)]
    /\ UNCHANGED <<inode_bitmap, data_bitmap, disk_inodes, blocks, fsLast>>
    /\ UNCHANGED notFs

RtReadChunk ==
    /\ rt.pc = "chunks"
    /\ \E r \in {Inode_read_at(FsState, FileA, rt.off, ChunkSize)} :
       rt' = IF Len(r) = 0 THEN [rt EXCEPT !.pc = "done"]
             ELSE [rt EXCEPT !.acc = rt.acc \o r, !.off = rt.off + Len(r)]
    /\ UNCHANGED <<inode_bitmap, data_bitmap, disk_inodes, blocks, fsLast>>
    /\ UNCHANGED notFs

RtAgain ==
    /\ rt.pc = "done"
    /\ rt' = [RtIdle EXCEPT !.pc = "idle"]
    /\ UNCHANGED <<inode_bitmap, data_bitmap, disk_inodes, blocks, fsLast>>
    /\ UNCHANGED notFs

NextRT == RtCreate \/ RtClear \/ RtWrite \/ RtReadWhole \/ RtReadChunk \/ RtAgain

(* SpecFS: create on the root directory, write_at and clear on its files,  *)
(* and the kernel's open_file, in any order                                *)
MaxFsOps == 5
MaxFileSize == 10
MaxWriteLen == 4
WriteLens == {1, MaxWriteLen}
OpenFlagsTried == {READ_ONLY, READ_WRITE, CREATE, CREATE + WRITE_ONLY, TRUNCATE}

FileContent(S, id) == Inode_read_at(S, id, 0, S.inodes[id].size)

\* the block ids a disk inode refers to: data blocks and index blocks
ReferencedBlocks(ino, blks) ==
    LET db == data_blocks(ino.size) IN
    {ino.direct[i] : i \in {j \in 1..INODE_DIRECT_COUNT : ino.direct[j] # 0}}
    \cup (IF ino.indirect1 # 0 THEN {ino.indirect1} ELSE {})
    \cup (IF ino.indirect2 # 0 THEN {ino.indirect2} ELSE {})
    \cup {get_block_id(ino, k, blks) : k \in 0..(db - 1)}
    \cup (IF db > DIRECT_BOUND THEN {ino.indirect1} ELSE {})
    \cup (IF db > INDIRECT1_BOUND
          THEN {ino.indirect2} \cup
               {blks[ino.indirect2][a + 1] :
                    a \in 0..((db - INDIRECT1_BOUND - 1) \div INODE_INDIRECT1_COUNT)}
          ELSE {})

\* the root directory's entries, in on-disk order
DirEntries(S) == [i \in 1..FileCount(S) |-> DirEntryAt(S, i - 1)]

\* the inode numbers whose bit is set in the inode bitmap
AllocatedInodes(S) == {i \in 0..(InodeNum - 1) : BitmapTest(S.ibm, i)}

\* the data blocks whose bit is set in the data bitmap
AllocatedData(S) == {b \in DataBlockIds : BitmapTest(S.dbm, b - DataAreaStart)}

\* the record rec of a call that took the file system from S to T, with what
\* the call's alloc_data and dealloc_data calls did: zeroed, every block handed
\* out read as zeros in S; reused, a block handed out had been freed before;
\* freed, the blocks freed so far; created, the names for which a create
\* (of the root inode, directly or through open_file) returned an inode
CallRecord(rec, S, T) ==
    [rec EXCEPT !.zeroed = \A b \in AllocatedData(T) \ AllocatedData(S) :
                              S.blocks[b] = ZeroBlock,
                !.reused = (AllocatedData(T) \ AllocatedData(S)) \cap fsLast.freed # {},
                !.freed = fsLast.freed \cup (AllocatedData(S) \ AllocatedData(T)),
                !.created = IF rec.existed = NoneInode /\ rec.ret # NoneInode
                            THEN Append(fsLast.created, rec.name)
                            ELSE fsLast.created,
                !.n = fsLast.n + 1]
\* the bytes a model write carries: they depend on the position, never 0
Pattern(offset, len) == [i \in 1..len |-> 1 + ((offset + i) % 2)]

FsCreate(name) ==
    /\ fsLast.n < MaxFsOps
    /\ \E c \in {create(FsState, name)} :
       /\ c.ok
       /\ SetFs(c.S)
       /\ fsLast' = CallRecord([NoCall EXCEPT !.op = "create", !.name = name, !.ret = c.ret,
                                               !.existed = find(FsState, name),
                                               !.dir = <<FsState>>],
                                FsState, c.S)
    /\ UNCHANGED rt
    /\ UNCHANGED notFs

FsWrite(name, offset, len) ==
    /\ fsLast.n < MaxFsOps
    /\ offset + len <= MaxFileSize
    /\ \E id \in {find(FsState, name)} \ {NoneInode} :
       /\ offset \in {0, disk_inodes[id].size, disk_inodes[id].size + 1}
       /\ \E w \in {Inode_write_at(FsState, id, offset, Pattern(offset, len))} :
          /\ w.ok
          /\ SetFs(w.S)
          /\ fsLast' = CallRecord([NoCall EXCEPT !.op = "write_at", !.name = name,
                                      !.ret = w.n, !.offset = offset,
                                      !.existed = id, !.before = FileContent(FsState, id),
                                      !.buf = Pattern(offset, len)],
                                   FsState, w.S)
    /\ UNCHANGED rt
    /\ UNCHANGED notFs

FsClear(name) ==
    /\ fsLast.n < MaxFsOps
    /\ \E id \in {find(FsState, name)} \ {NoneInode} :
       \E c \in {Inode_clear(FsState, id)} :
          /\ c.ok
          /\ SetFs(c.S)
          /\ fsLast' = CallRecord([NoCall EXCEPT !.op = "clear", !.name = name,
                                      !.existed = id, !.before = FileContent(FsState, id),
                                      !.refs = ReferencedBlocks(disk_inodes[id], blocks)],
                                   FsState, c.S)
    /\ UNCHANGED rt
    /\ UNCHANGED notFs

FsOpen(name, flags) ==
    /\ fsLast.n < MaxFsOps
    /\ \E id \in {find(FsState, name)} :
       \E o \in {open_file(FsState, name, flags)} :
          /\ o.ok
          /\ SetFs(o.S)
          /\ fsLast' = CallRecord([NoCall EXCEPT !.op = "open", !.name = name,
                                      !.flags = flags, !.ret = o.ret, !.existed = id,
                                      !.before = IF id = NoneInode THEN <<>>
                                                 ELSE FileContent(FsState, id),
                                      !.refs = IF id = NoneInode THEN {}
                                               ELSE ReferencedBlocks(disk_inodes[id], blocks)],
                                   FsState, o.S)
    /\ UNCHANGED rt
    /\ UNCHANGED notFs

(* SpecWrite: one file of the root directory and a few write_at calls at   *)
(* every offset up to MaxWriteOffset, inside, at and beyond the end of the *)
(* file, with buffers of 0, 1 and MaxWriteLen bytes                        *)
MaxWrites == 2
MaxWriteOffset == 4

\* a buffer of len bytes that starts with byte first; no byte is 0
Buffer(first, len) == [i \in 1..len |-> 1 + ((first + i) % 2)]

\* Inode::write_at(offset, buf) on the file called name
FsWriteBuf(name, offset, buf) ==
    /\ fsLast.n <= MaxWrites
    /\ \E id \in {find(FsState, name)} \ {NoneInode} :
       \E w \in {Inode_write_at(FsState, id, offset, buf)} :
          /\ w.ok
          /\ SetFs(w.S)
          /\ fsLast' = CallRecord([NoCall EXCEPT !.op = "write_at", !.name = name,
                                      !.ret = w.n, !.offset = offset,
                                      !.existed = id, !.before = FileContent(FsState, id),
                                      !.buf = buf],
                                   FsState, w.S)
    /\ UNCHANGED rt
    /\ UNCHANGED notFs

NextWrite ==
    \/ FsCreate(1)
    \/ \E offset \in 0..MaxWriteOffset, first \in Bytes, len \in {0, 1, MaxWriteLen} :
          FsWriteBuf(1, offset, Buffer(first, len))

NextFS ==
    \/ \E name \in Names : FsCreate(name)
    \/ \E name \in Names, offset \in 0..MaxFileSize, len \in WriteLens :
          FsWrite(name, offset, len)
    \/ \E name \in Names : FsClear(name)
    \/ \E name \in Names, flags \in OpenFlagsTried : FsOpen(name, flags)

----------------------------------------------------------------------------
(* os/src/fs/pipe.rs: PipeRingBuffer and Pipe::read / Pipe::write.          *)
(* A thread's step runs from its (re)dispatch to its next                   *)
(* suspend_current_and_run_next or to its return: nothing else runs in      *)
(* between on the single hart.  The ring buffer is scaled from the source's  *)
(* 32 bytes to RING_BUFFER_SIZE; nothing in the code depends on the number. *)

RING_BUFFER_SIZE == 4

PipeRingBuffer_new ==
    [arr |-> [i \in 0..(RING_BUFFER_SIZE - 1) |-> 0], head |-> 0, tail |-> 0,
     status |-> "Empty", write_end |-> TRUE]

\* a faulty read_byte, which never marks the buffer Empty
read_byte_NoEmpty(p) ==
    [b |-> p.arr[p.head],
     p |-> [p EXCEPT !.head = (p.head + 1) % RING_BUFFER_SIZE, !.status = "Normal"]]

read_byte(p) ==
    [b |-> p.arr[p.head],
     p |-> [p EXCEPT !.head = (p.head + 1) % RING_BUFFER_SIZE,
                     !.status = IF (p.head + 1) % RING_BUFFER_SIZE = p.tail
                                THEN "Empty" ELSE "Normal"]]

\* a faulty write_byte, which never marks the buffer Full
write_byte_NoFull(p, b) ==
    [p EXCEPT !.arr[p.tail] = b,
              !.tail = (p.tail + 1) % RING_BUFFER_SIZE,
              !.status = "Normal"]

write_byte(p, b) ==
    [p EXCEPT !.arr[p.tail] = b,
              !.tail = (p.tail + 1) % RING_BUFFER_SIZE,
              !.status = IF p.head = (p.tail + 1) % RING_BUFFER_SIZE
                         THEN "Full" ELSE "Normal"]

available_read(p) ==
    IF p.status = "Empty" THEN 0
    ELSE IF p.tail > p.head THEN p.tail - p.head
    ELSE RING_BUFFER_SIZE - p.head + p.tail

available_write(p) ==
    IF p.status = "Full" THEN 0 ELSE RING_BUFFER_SIZE - available_read(p)

\* a faulty all_write_ends_closed, which never sees the write end dropped
all_write_ends_closed_Never(p) == FALSE

\* the Weak<Pipe> of the write end no longer upgrades
all_write_ends_closed(p) == ~p.write_end

\* the u8 the writing thread sends as its i-th byte (i = 1, 2, ...)
StreamByte(i) == i % 256

\* c = [p, h, rem, size, pc]: the ring buffer, the history, the bytes left in
\* the user buffer, read_size or write_size, and where the call stands
RECURSIVE ReadBytes(_, _)
ReadBytes(c, n) ==
    IF n = 0 THEN c
    ELSE With(read_byte(c.p), LAMBDA r :
         With([c EXCEPT !.p = r.p, !.h.delivered = Append(@, r.b),
                        !.rem = @ - 1, !.size = @ + 1], LAMBDA c1 :
             ReadBytes(c1, n - 1)))

RECURSIVE Pipe_read(_)
Pipe_read(c) ==
    With(available_read(c.p), LAMBDA loop_read_size :
        IF loop_read_size = 0
        THEN IF all_write_ends_closed(c.p) THEN [c EXCEPT !.pc = "return"]
             ELSE [c EXCEPT !.pc = "suspended"]
        ELSE IF c.rem < loop_read_size
             THEN [ReadBytes(c, c.rem) EXCEPT !.pc = "return"]
             ELSE With(ReadBytes(c, loop_read_size), LAMBDA c1 : Pipe_read(c1)))

RECURSIVE WriteBytes(_, _)
WriteBytes(c, n) ==
    IF n = 0 THEN c
    ELSE With([c EXCEPT
                  !.p = write_byte(c.p, StreamByte(Len(c.h.accepted) + 1)),
                  !.h.accepted = Append(@, StreamByte(Len(c.h.accepted) + 1)),
                  !.h.overrun = @ \/ (Len(c.h.accepted) - Len(c.h.delivered)
                                        >= RING_BUFFER_SIZE),
                  !.rem = @ - 1, !.size = @ + 1], LAMBDA c1 :
             WriteBytes(c1, n - 1))

RECURSIVE Pipe_write(_)
Pipe_write(c) ==
    With(available_write(c.p), LAMBDA loop_write_size :
        IF loop_write_size = 0 THEN [c EXCEPT !.pc = "suspended"]
        ELSE IF c.rem < loop_write_size
             THEN [WriteBytes(c, c.rem) EXCEPT !.pc = "return"]
             ELSE With(WriteBytes(c, loop_write_size), LAMBDA c1 : Pipe_write(c1)))

(* SpecPipe: a reading and a writing thread on one pipe *)
MaxPipeBytes == 10
PipeReadLens == {1, 3, RING_BUFFER_SIZE + 1}
PipeWriteLens == {1, RING_BUFFER_SIZE, RING_BUFFER_SIZE + 2}

ThreadIdle == [pc |-> "idle", rem |-> 0, size |-> 0, ret |-> -1, closed |-> FALSE]

PipeInit ==
    /\ pipe = PipeRingBuffer_new
    /\ rd = ThreadIdle
    /\ wr = ThreadIdle
    /\ ph = [accepted |-> <<>>, delivered |-> <<>>, overrun |-> FALSE, residual |-> 0]

\* the thread's record after a step that left the call at c
AfterStep(c) ==
    IF c.pc = "return"
    THEN [pc |-> "idle", rem |-> 0, size |-> 0, ret |-> c.size, closed |-> ~c.p.write_end]
    ELSE [pc |-> "suspended", rem |-> c.rem, size |-> c.size, ret |-> -1, closed |-> FALSE]

\* history: the number of reads that returned bytes after the write end was dropped
Residual(c) ==
    IF c.pc = "return" /\ ~c.p.write_end /\ c.size > 0 /\ c.h.residual < 2
    THEN [c.h EXCEPT !.residual = @ + 1] ELSE c.h

PipeReadStep(rem, size) ==
    \E c \in {Pipe_read([p |-> pipe, h |-> ph, rem |-> rem, size |-> size, pc |-> "run"])} :
       /\ pipe' = c.p
       /\ ph' = Residual(c)
       /\ rd' = AfterStep(c)
       /\ UNCHANGED wr
       /\ UNCHANGED notPipe

PipeReadCall(len) == rd.pc = "idle" /\ PipeReadStep(len, 0)

PipeReadResume == rd.pc = "suspended" /\ PipeReadStep(rd.rem, rd.size)

PipeWriteStep(rem, size) ==
    \E c \in {Pipe_write([p |-> pipe, h |-> ph, rem |-> rem, size |-> size, pc |-> "run"])} :
       /\ pipe' = c.p
       /\ ph' = c.h
       /\ wr' = [AfterStep(c) EXCEPT !.ret = -1, !.closed = FALSE]
       /\ UNCHANGED rd
       /\ UNCHANGED notPipe

PipeWriteCall(len) ==
    /\ wr.pc = "idle"
    /\ pipe.write_end
    /\ Len(ph.accepted) + len <= MaxPipeBytes
    /\ PipeWriteStep(len, 0)

PipeWriteResume == wr.pc = "suspended" /\ PipeWriteStep(wr.rem, wr.size)

\* the last Arc of the write end is dropped (not while a write on it is under way)
PipeCloseWrite ==
    /\ wr.pc = "idle"
    /\ pipe.write_end
    /\ pipe' = [pipe EXCEPT !.write_end = FALSE]
    /\ UNCHANGED <<rd, wr, ph>>
    /\ UNCHANGED notPipe

NextPipe ==
    \/ \E len \in PipeReadLens : PipeReadCall(len)
    \/ PipeReadResume
    \/ \E len \in PipeWriteLens : PipeWriteCall(len)
    \/ PipeWriteResume
    \/ PipeCloseWrite

----------------------------------------------------------------------------
(* os/src/task/id.rs: RecycleAllocator; os/src/syscall/process.rs:          *)
(* sys_waitpid.  A result's ok is FALSE where the code panics.              *)

RecycleAllocator_new == [current |-> 0, recycled |-> <<>>]

RecycleAllocator_alloc(a) ==
    IF a.recycled # <<>>
    THEN [id |-> a.recycled[Len(a.recycled)],
          a  |-> [a EXCEPT !.recycled = SubSeq(@, 1, Len(@) - 1)]]
    ELSE [id |-> a.current, a |-> [a EXCEPT !.current = @ + 1]]

\* the two assertions of dealloc, as they are written
RecycleAllocator_dealloc(a, id) ==
    IF id < a.current /\ (\E i \in 1..Len(a.recycled) : a.recycled[i] = id)
    THEN [ok |-> TRUE, a |-> [a EXCEPT !.recycled = Append(@, id)]]
    ELSE [ok |-> FALSE, a |-> a]

ANY_PROCESS == -1
NO_CHILDREN_RUNNING == -1
CHILDREN_RUNNING == -2

\* pid == ANY_PROCESS || (pid as usize) == child.getpid(): a negative isize
\* casts to a usize above every pid
WaitMatches(pid, child) == pid = ANY_PROCESS \/ (pid >= 0 /\ pid = child.pid)

RemoveAt(seq, idx) == SubSeq(seq, 1, idx - 1) \o SubSeq(seq, idx + 1, Len(seq))

\* sys_waitpid(pid, exit_code_ptr) on the children ch with the pid allocator a:
\* [ok, ret, children, a, written], written the exit code stored through the
\* pointer (<<>> if none).  The removed child is dropped when the function
\* returns, and PidHandle::drop deallocates its pid.
sys_waitpid(ch, a, pid) ==
    IF ~\E i \in 1..Len(ch) : WaitMatches(pid, ch[i])
    THEN [ok |-> TRUE, ret |-> NO_CHILDREN_RUNNING, children |-> ch, a |-> a, written |-> <<>>]
    ELSE With({i \in 1..Len(ch) : ch[i].zombie /\ WaitMatches(pid, ch[i])}, LAMBDA pair :
        IF pair # {}
        THEN With(Least(pair), LAMBDA idx :
             With(RecycleAllocator_dealloc(a, ch[idx].pid), LAMBDA d :
                 [ok |-> d.ok, ret |-> ch[idx].pid, children |-> RemoveAt(ch, idx),
                  a |-> d.a, written |-> <<ch[idx].exit_code>>]))
        ELSE [ok |-> TRUE, ret |-> CHILDREN_RUNNING, children |-> ch, a |-> a,
              written |-> <<>>])

(* SpecProc: a process forks children, the children exit, the process waits *)
MaxForks == 3
ExitCodes == {0, 5}
WaitPids == {-2, ANY_PROCESS} \cup (0..MaxForks)

ProcIdle == [op |-> "none", pid |-> 0, ret |-> 0, before |-> <<>>, written |-> <<>>,
             panicked |-> FALSE]

\* the caller holds pid 0
ProcInit ==
    /\ children = <<>>
    /\ pid_allocator = RecycleAllocator_alloc(RecycleAllocator_new).a
    /\ procLast = ProcIdle

\* sys_fork / TaskControlBlock::fork: pid_alloc and children.push
ProcFork ==
    /\ ~procLast.panicked
    /\ pid_allocator.current <= MaxForks
    /\ \E r \in {RecycleAllocator_alloc(pid_allocator)} :
          /\ children' = Append(children, [pid |-> r.id, zombie |-> FALSE, exit_code |-> 0])
          /\ pid_allocator' = r.a
          /\ procLast' = [ProcIdle EXCEPT !.op = "fork", !.ret = r.id]
    /\ UNCHANGED notProc

\* a child exits: it becomes a zombie holding its exit code
ProcChildExit(i, code) ==
    /\ ~procLast.panicked
    /\ i \in 1..Len(children)
    /\ ~children[i].zombie
    /\ children' = [children EXCEPT ![i].zombie = TRUE, ![i].exit_code = code]
    /\ procLast' = [ProcIdle EXCEPT !.op = "exit"]
    /\ UNCHANGED pid_allocator
    /\ UNCHANGED notProc

ProcWaitpid(pid) ==
    /\ ~procLast.panicked
    /\ \E w \in {sys_waitpid(children, pid_allocator, pid)} :
          /\ children' = w.children
          /\ pid_allocator' = w.a
          /\ procLast' = [op |-> "waitpid", pid |-> pid, ret |-> w.ret, before |-> children,
                          written |-> w.written, panicked |-> ~w.ok]
    /\ UNCHANGED notProc

NextProc ==
    \/ ProcFork
    \/ \E i \in 1..MaxForks, code \in ExitCodes : ProcChildExit(i, code)
    \/ \E pid \in WaitPids : ProcWaitpid(pid)

----------------------------------------------------------------------------
(* os/src/task/manager.rs, processor.rs, mod.rs: the ready queue and the    *)
(* processor; os/src/sync/mutex.rs: MutexBlocking                           *)

TaskManager_add(rq, tcb) == Append(rq, tcb)

TaskManager_fetch_Back(rq) ==
    [task |-> rq[Len(rq)], rq |-> SubSeq(rq, 1, Len(rq) - 1)]

\* pop_front of a non-empty queue
TaskManager_fetch(rq) == [task |-> Head(rq), rq |-> Tail(rq)]

MutexBlocking_new == [locked |-> FALSE, wait_queue |-> <<>>]

\* a faulty lock, which takes the mutex without testing locked
MutexBlocking_lock_NoTest(m, cur) == [m |-> [m EXCEPT !.locked = TRUE], block |-> FALSE]

\* a faulty unlock, which takes the waiter off the wait queue and drops it
MutexBlocking_unlock_NoWake(m, rq) ==
    IF m.wait_queue # <<>>
    THEN [m |-> [m EXCEPT !.wait_queue = Tail(@)], rq |-> rq]
    ELSE [m |-> [m EXCEPT !.locked = FALSE], rq |-> rq]

\* lock() called by the thread cur: block is TRUE when it goes on to
\* block_current_and_run_next
MutexBlocking_lock(m, cur) ==
    IF m.locked
    THEN [m |-> [m EXCEPT !.wait_queue = Append(@, cur)], block |-> TRUE]
    ELSE [m |-> [m EXCEPT !.locked = TRUE], block |-> FALSE]

MutexBlocking_unlock_PopBack(m, rq) ==
    IF m.wait_queue # <<>>
    THEN [m  |-> [m EXCEPT !.wait_queue = SubSeq(@, 1, Len(@) - 1)],
          rq |-> TaskManager_add(rq, m.wait_queue[Len(m.wait_queue)])]
    ELSE [m |-> [m EXCEPT !.locked = FALSE], rq |-> rq]

\* unlock() of a locked mutex, with the ready queue rq
MutexBlocking_unlock(m, rq) ==
    IF m.wait_queue # <<>>
    THEN [m  |-> [m EXCEPT !.wait_queue = Tail(@)],
          rq |-> TaskManager_add(rq, Head(m.wait_queue))]
    ELSE [m |-> [m EXCEPT !.locked = FALSE], rq |-> rq]

MaxThreads == 4
MaxMutexThreads == 3
MaxLocks == 3
Threads == 1..MaxThreads
SeqRange(q) == {q[i] : i \in 1..Len(q)}

(* History.  waiting: the threads that yielded and were not dispatched since;
   ahead[t]: the threads queued when t yielded that were not dispatched since;
   later[t]: the threads enqueued after t's yield; overtaken: a thread of
   later[t] was dispatched while t waited; early: t was dispatched with
   ahead[t] non-empty; resumed: the last dispatch of a thread that had
   yielded, with the threads queued at its yield and enqueued after it;
   blocked / granted: the threads in the order in which
   they blocked in lock() / returned from it; inLock: the threads inside a
   blocked lock(); last: the last unlock, with the state before it. *)
SchedHistInit ==
    [waiting |-> {}, ahead |-> [t \in Threads |-> {}], later |-> [t \in Threads |-> {}],
     overtaken |-> FALSE, early |-> FALSE, ahead0 |-> [t \in Threads |-> {}],
     resumed |-> [t |-> 0, ahead |-> {}, later |-> {}],
     blocked |-> <<>>, granted |-> <<>>, inLock |-> {}, locks |-> 0,
     last |-> [op |-> "none", m |-> MutexBlocking_new, rq |-> <<>>]]

NoteEnqueue(h, u) ==
    [h EXCEPT !.later = [t \in Threads |->
                            IF t \in h.waiting /\ t # u THEN h.later[t] \cup {u}
                            ELSE h.later[t]],
              !.resumed = [t |-> 0, ahead |-> {}, later |-> {}],
              !.last.op = "none"]

NoteYield(h, t, rq) ==
    [NoteEnqueue(h, t) EXCEPT !.waiting = @ \cup {t}, !.ahead[t] = SeqRange(rq),
                              !.ahead0[t] = SeqRange(rq), !.later[t] = {}]

NoteDispatch(h, u) ==
    [h EXCEPT !.overtaken = @ \/ (\E t \in h.waiting \ {u} : u \in h.later[t]),
              !.early = @ \/ (u \in h.waiting /\ h.ahead[u] # {}),
              !.resumed = IF u \in h.waiting
                          THEN [t |-> u, ahead |-> h.ahead0[u], later |-> h.later[u]]
                          ELSE [t |-> 0, ahead |-> {}, later |-> {}],
              !.ahead = [t \in Threads |-> h.ahead[t] \ {u}],
              !.ahead0[u] = {},
              !.later[u] = {},
              !.waiting = @ \ {u},
              !.granted = IF u \in h.inLock THEN Append(@, u) ELSE @,
              !.inLock = @ \ {u},
              !.last.op = "none"]

SchedInit ==
    /\ ready_queue = <<1>>
    /\ current = 0
    /\ idle = TRUE
    /\ task_status = [t \in Threads |-> IF t = 1 THEN "Ready" ELSE "None"]
    /\ mutex = MutexBlocking_new
    /\ sh = SchedHistInit

\* add_task of a newly created thread
SchedSpawn(t) ==
    /\ task_status[t] = "None"
    /\ task_status' = [task_status EXCEPT ![t] = "Ready"]
    /\ ready_queue' = TaskManager_add(ready_queue, t)
    /\ sh' = NoteEnqueue(sh, t)
    /\ UNCHANGED <<current, idle, mutex>>
    /\ UNCHANGED notSched

suspend_current_and_run_next ==
    /\ ~idle /\ current # 0
    /\ task_status' = [task_status EXCEPT ![current] = "Ready"]
    /\ ready_queue' = TaskManager_add(ready_queue, current)
    /\ current' = 0
    /\ idle' = TRUE
    /\ sh' = NoteYield(sh, current, ready_queue)
    /\ UNCHANGED mutex
    /\ UNCHANGED notSched

\* run_tasks: one iteration of the loop that finds a task
run_tasks ==
    /\ idle
    /\ ready_queue # <<>>
    /\ \E f \in {TaskManager_fetch(ready_queue)} :
          /\ ready_queue' = f.rq
          /\ task_status' = [task_status EXCEPT ![f.task] = "Running"]
          /\ current' = f.task
          /\ sh' = NoteDispatch(sh, f.task)
    /\ idle' = FALSE
    /\ UNCHANGED mutex
    /\ UNCHANGED notSched

\* the running thread calls lock(); block_current_and_run_next leaves
\* PROCESSOR.current in place
MutexLock ==
    /\ ~idle /\ current # 0
    /\ sh.locks < MaxLocks
    /\ \E r \in {MutexBlocking_lock(mutex, current)} :
          /\ mutex' = r.m
          /\ task_status' = IF r.block THEN [task_status EXCEPT ![current] = "Blocking"]
                            ELSE task_status
          /\ idle' = r.block
          /\ sh' = [sh EXCEPT !.locks = @ + 1,
                              !.blocked = IF r.block THEN Append(@, current) ELSE @,
                              !.inLock = IF r.block THEN @ \cup {current} ELSE @,
                              !.resumed = [t |-> 0, ahead |-> {}, later |-> {}],
                              !.last.op = "none"]
    /\ UNCHANGED <<ready_queue, current>>
    /\ UNCHANGED notSched

\* the running thread calls unlock(); assert!(inner.locked)
MutexUnlock ==
    /\ ~idle /\ current # 0
    /\ mutex.locked
    /\ \E r \in {MutexBlocking_unlock(mutex, ready_queue)} :
          /\ mutex' = r.m
          /\ ready_queue' = r.rq
          /\ sh' = [(IF mutex.wait_queue # <<>> THEN NoteEnqueue(sh, Head(mutex.wait_queue))
                     ELSE sh)
                       EXCEPT !.resumed = [t |-> 0, ahead |-> {}, later |-> {}],
                              !.last = [op |-> "unlock", m |-> mutex, rq |-> ready_queue]]
    /\ UNCHANGED <<current, idle, task_status>>
    /\ UNCHANGED notSched

NextSched ==
    \/ \E t \in Threads : SchedSpawn(t)
    \/ suspend_current_and_run_next
    \/ run_tasks

NextMutex ==
    \/ \E t \in 1..MaxMutexThreads : SchedSpawn(t)
    \/ suspend_current_and_run_next
    \/ run_tasks
    \/ MutexLock
    \/ MutexUnlock

----------------------------------------------------------------------------
(* os/src/task/signal.rs, action.rs; os/src/syscall/process.rs: signals.    *)
(* A SignalFlags value is the set of the numbers of its bits.               *)

MAX_SIG == 31
SIGDEF == 0
SIGINT == 2
SIGKILL == 9
SIGUSR1 == 10
SIGUSR2 == 12
SIGCONT == 18
SIGSTOP == 19

\* SignalAction::default(): mask 40 is bits 3 and 5
SignalAction_default == [handler |-> 0, mask |-> {3, 5}]

SignalActions_default == [sig \in 0..MAX_SIG |-> SignalAction_default]

\* flags ^= flag
Xor(flags, sig) == IF sig \in flags THEN flags \ {sig} ELSE flags \cup {sig}

IsKernelSignal(sig) == sig \in {SIGKILL, SIGSTOP, SIGCONT, SIGDEF}

call_kernel_signal_handler(t, sig) ==
    IF sig = SIGSTOP
    THEN IF SIGSTOP \in t.signals
         THEN [t EXCEPT !.frozen = TRUE, !.signals = Xor(@, SIGSTOP)]
         ELSE t
    ELSE IF sig = SIGCONT
    THEN IF SIGCONT \in t.signals
         THEN [t EXCEPT !.frozen = FALSE, !.signals = Xor(@, SIGCONT)]
         ELSE t
    ELSE [t EXCEPT !.killed = TRUE]

call_user_signal_handler(t, sig) ==
    IF t.signal_actions[sig].handler = 0
    THEN t
    ELSE [t EXCEPT !.signal_mask = t.signal_actions[sig].mask,
                   !.handling_sig = sig,
                   !.signals = Xor(@, sig),
                   !.trap_ctx_backup = <<t.trap_ctx>>,
                   !.trap_ctx = [sepc |-> t.signal_actions[sig].handler, x10 |-> sig]]

\* the loop of check_pending_signals from sig on; c.called lists the signals
\* that were passed to call_kernel_signal_handler or call_user_signal_handler
RECURSIVE CheckLoop(_, _)
CheckLoop(c, sig) ==
    IF sig > MAX_SIG THEN c
    ELSE IF sig \notin c.t.signals \/ sig \in c.t.signal_mask
    THEN CheckLoop(c, sig + 1)
    ELSE IF c.t.handling_sig = -1
    THEN IF IsKernelSignal(sig)
         THEN CheckLoop([t |-> call_kernel_signal_handler(c.t, sig),
                         called |-> Append(c.called, sig)], sig + 1)
         ELSE [t |-> call_user_signal_handler(c.t, sig),
               called |-> Append(c.called, sig)]
    ELSE IF sig \notin c.t.signal_actions[c.t.handling_sig].mask
    THEN IF IsKernelSignal(sig)
         THEN CheckLoop([t |-> call_kernel_signal_handler(c.t, sig),
                         called |-> Append(c.called, sig)], sig + 1)
         ELSE [t |-> call_user_signal_handler(c.t, sig),
               called |-> Append(c.called, sig)]
    ELSE CheckLoop(c, sig + 1)

check_pending_signals(t) == CheckLoop([t |-> t, called |-> <<>>], 0)

\* sys_sigaction(signum, action, old_action) with non-null pointers
sys_sigaction(t, signum, action) ==
    IF signum > MAX_SIG \/ signum < 0 THEN [ret |-> -1, t |-> t]
    ELSE IF signum = SIGKILL \/ signum = SIGSTOP THEN [ret |-> -1, t |-> t]
    ELSE [ret |-> 0, t |-> [t EXCEPT !.signal_actions[signum] = action]]

\* sys_kill(pid, signum) for the pid of the task
sys_kill(t, signum) ==
    IF signum \in t.signals THEN [ret |-> -1, t |-> t]
    ELSE [ret |-> 0, t |-> [t EXCEPT !.signals = @ \cup {signum}]]

\* sys_sigreturn: ok is FALSE where trap_ctx_backup.unwrap() panics
sys_sigreturn(t) ==
    IF t.trap_ctx_backup = <<>> THEN [ok |-> FALSE, ret |-> 0, t |-> t]
    ELSE [ok |-> TRUE, ret |-> 0,
          t |-> [t EXCEPT !.handling_sig = -1, !.trap_ctx = t.trap_ctx_backup[1]]]

\* sys_procmask(mask): every u32 is a SignalFlags; returns the old mask
sys_procmask(t, mask) == [ret |-> t.signal_mask, t |-> [t EXCEPT !.signal_mask = mask]]

(* SpecSig: one task, its signals and its trap context *)
MaxKills == 2
HandlerPc == 7
UserPcs == {1, 2}
KillSigs == {SIGINT, SIGKILL, SIGUSR1, SIGUSR2}
ActionSigs == {SIGKILL, SIGUSR1, SIGUSR2}
ActionMasks == {{3, 5}, {SIGUSR1, SIGUSR2}}
ProcMasks == {{}, {SIGUSR2}, {SIGKILL, SIGUSR1, SIGUSR2}}

NoEntry == [sig |-> -1, ctx |-> [sepc |-> 0, x10 |-> 0], again |-> FALSE, mask |-> {}]

\* the fields of the task control block, as section 4.10 of the specification
\* lists them
SigTaskInit ==
    [signals |-> {}, signal_mask |-> {}, handling_sig |-> -1,
     signal_actions |-> SignalActions_default,
     trap_ctx |-> [sepc |-> 1, x10 |-> 0], trap_ctx_backup |-> <<>>,
     frozen |-> FALSE, killed |-> FALSE]

\* the record of a call: the state before it is kept for the calls whose
\* effect the properties read
SigLast(op, ret) ==
    [op |-> op, ret |-> ret, before |-> SigTaskInit, called |-> <<>>, fresh |-> {},
     entry |-> NoEntry]

(* History.  stack: the user handlers dispatched and not yet returned from,
   each with the trap context and the signal_mask before its dispatch and
   whether its signal was sent again since; fresh: the pending signals that were masked and whose
   bit the last sys_procmask calls removed from the mask, no check since;
   kills: the number of sys_kill calls; last: the last call *)
SigInit ==
    /\ task = SigTaskInit
    /\ sg = [stack |-> <<>>, fresh |-> {}, kills |-> 0,
             last |-> [op |-> "none", ret |-> 0, before |-> SigTaskInit, called |-> <<>>,
                       fresh |-> {}, entry |-> NoEntry]]

UserRuns == ~task.frozen /\ ~task.killed

\* another process (or the task) sends signum
SigKill(signum) ==
    /\ sg.kills < MaxKills
    /\ \E r \in {sys_kill(task, signum)} :
          /\ task' = r.t
          /\ sg' = [sg EXCEPT !.kills = @ + 1,
                              !.stack = [i \in 1..Len(sg.stack) |->
                                            IF sg.stack[i].sig = signum /\ r.ret = 0
                                            THEN [sg.stack[i] EXCEPT !.again = TRUE]
                                            ELSE sg.stack[i]],
                              !.last = SigLast("kill", r.ret)]
    /\ UNCHANGED notSig

SigAction(signum, handler, mask) ==
    /\ UserRuns
    /\ \E r \in {sys_sigaction(task, signum, [handler |-> handler, mask |-> mask])} :
          /\ task' = r.t
          /\ sg' = [sg EXCEPT !.last = SigLast("sigaction", r.ret)]
    /\ UNCHANGED notSig

SigProcmask(mask) ==
    /\ UserRuns
    /\ \E r \in {sys_procmask(task, mask)} :
          /\ task' = r.t
          /\ sg' = [sg EXCEPT !.fresh = {s \in task.signals :
                                            /\ s \in sg.fresh \/ s \in task.signal_mask
                                            /\ s \notin mask},
                              !.last = SigLast("procmask", 0)]
    /\ UNCHANGED notSig

\* a return to user mode: check_pending_signals
SigCheck ==
    /\ \E r \in {check_pending_signals(task)} :
          /\ task' = r.t
          /\ sg' = [sg EXCEPT
                !.stack = IF r.t.trap_ctx_backup # task.trap_ctx_backup
                             \/ r.t.handling_sig # task.handling_sig
                             \/ r.t.trap_ctx # task.trap_ctx
                          THEN Append(@, [sig |-> r.t.handling_sig, ctx |-> task.trap_ctx,
                                          again |-> FALSE, mask |-> task.signal_mask])
                          ELSE @,
                !.fresh = {},
                !.last = [SigLast("check", 0) EXCEPT !.before = task, !.called = r.called,
                                                   !.fresh = sg.fresh]]
    /\ UNCHANGED notSig

\* the handler that runs calls sys_sigreturn
SigReturn ==
    /\ UserRuns
    /\ sg.stack # <<>>
    /\ \E r \in {sys_sigreturn(task)} :
          /\ r.ok
          /\ task' = r.t
          /\ sg' = [sg EXCEPT !.stack = SubSeq(@, 1, Len(@) - 1),
                              !.last = [SigLast("sigreturn", r.ret) EXCEPT
                                           !.entry = sg.stack[Len(sg.stack)]]]
    /\ UNCHANGED notSig

\* user code runs on and traps at pc
SigUserRun(pc) ==
    /\ UserRuns
    /\ task.trap_ctx.sepc # pc
    /\ task' = [task EXCEPT !.trap_ctx = [sepc |-> pc, x10 |-> 0]]
    /\ sg' = [sg EXCEPT !.last = SigLast("run", 0)]
    /\ UNCHANGED notSig

NextSig ==
    \/ \E signum \in KillSigs : SigKill(signum)
    \/ \E signum \in ActionSigs, mask \in ActionMasks : SigAction(signum, HandlerPc, mask)
    \/ \E mask \in ProcMasks : SigProcmask(mask)
    \/ SigCheck
    \/ SigReturn
    \/ \E pc \in UserPcs : SigUserRun(pc)

----------------------------------------------------------------------------
(* SpecDisk: one DiskInode on its own. increase_size grows it, in one or    *)
(* several calls, to every size within capacity, taking the ids it needs    *)
(* from a pool of distinct block ids; clear_size empties it; it may then be *)
(* grown again over the index blocks the last round left behind.            *)

Capacity == INDIRECT2_BOUND * BLOCK_SIZE
DkIds == 1..total_blocks(Capacity)

\* the ids of DkIds in rising or falling order
Pool(up) ==
    [i \in 1..Cardinality(DkIds) |-> IF up THEN i ELSE Cardinality(DkIds) + 1 - i]

\* the ids the inode holds for its first data_blocks(size) data blocks and
\* for the index blocks they need, by position
StoredIds(ino, blks) ==
    [data |-> [i \in 0..(data_blocks(ino.size) - 1) |-> get_block_id(ino, i, blks)],
     indirect1 |-> IF data_blocks(ino.size) > DIRECT_BOUND THEN ino.indirect1 ELSE 0,
     indirect2 |-> IF data_blocks(ino.size) > INDIRECT1_BOUND THEN ino.indirect2 ELSE 0,
     indirect1s |-> IF data_blocks(ino.size) > INDIRECT1_BOUND
                    THEN [a \in 0..((data_blocks(ino.size) - INDIRECT1_BOUND - 1)
                                     \div INODE_INDIRECT1_COUNT) |->
                            blks[ino.indirect2][a + 1]]
                    ELSE <<>>]

\* the ids stored at the positions of o are at the same positions of n
IdsKept(o, n) ==
    /\ \A i \in DOMAIN o.data : n.data[i] = o.data[i]
    /\ o.indirect1 # 0 => n.indirect1 = o.indirect1
    /\ o.indirect2 # 0 => n.indirect2 = o.indirect2
    /\ \A a \in DOMAIN o.indirect1s : n.indirect1s[a] = o.indirect1s[a]

\* no increase_size call yet on this inode since it was last empty
NoGrow == [from |-> 0, needed |-> 0, used |-> 0, kept |-> TRUE]

DiskInit ==
    dk = [pc |-> "empty", inode |-> InitInode(FileType),
          blks |-> [b \in DkIds |-> ZeroBlock], pool |-> <<>>,
          used |-> 0, size0 |-> 0, v |-> <<>>, calls |-> "none", again |-> FALSE,
          grow |-> NoGrow]

\* increase_size(new_size, new_blocks), new_blocks the unused rest of the pool
DkGrow(new_size, pool) ==
    /\ dk.pc \in {"empty", "grown"}
    /\ new_size > dk.inode.size
    /\ dk.pc = "grown" => pool = dk.pool
    /\ \E r \in {increase_size(dk.inode, new_size,
                                SubSeq(pool, dk.used + 1, Len(pool)), dk.blks)} :
          dk' = [dk EXCEPT !.pc = "grown", !.inode = r.inode, !.blks = r.blocks,
                           !.pool = pool, !.used = dk.used + r.used,
                           !.calls = IF dk.calls = "none" THEN "one" ELSE "many",
                           !.grow = [from |-> dk.inode.size,
                                     needed |-> blocks_num_needed(dk.inode, new_size),
                                     used |-> r.used,
                                     kept |-> IdsKept(StoredIds(dk.inode, dk.blks),
                                                      StoredIds(r.inode, r.blocks))]]
    /\ UNCHANGED notDisk

\* clear_size()
DkClear ==
    /\ dk.pc = "grown"
    /\ \E c \in {clear_size(dk.inode, dk.blks)} :
          dk' = [dk EXCEPT !.pc = "cleared", !.inode = c.inode, !.blks = c.blocks,
                           !.v = c.v, !.size0 = dk.inode.size, !.grow = NoGrow]
    /\ UNCHANGED notDisk

\* the cleared inode is used again; the freed ids may be handed out again
DkAgain ==
    /\ dk.pc = "cleared"
    /\ ~dk.again
    /\ dk' = [dk EXCEPT !.pc = "empty", !.used = 0, !.size0 = 0, !.v = <<>>,
                        !.calls = "none", !.pool = <<>>, !.again = TRUE]
    /\ UNCHANGED notDisk

NextDisk ==
    \/ \E new_size \in 1..Capacity, up \in BOOLEAN : DkGrow(new_size, Pool(up))
    \/ DkClear
    \/ DkAgain

----------------------------------------------------------------------------
(* os/src/task/process.rs: alloc_fd; os/src/syscall/fs.rs: sys_open,        *)
(* sys_close, sys_pipe, sys_dup.  A slot holds "None" or what the file is.  *)
(* Slots are numbered from 0; fd_table[fd + 1] is slot fd.                  *)

\* a faulty alloc_fd, which always extends the table
alloc_fd_Push(t) == [fd |-> Len(t), table |-> Append(t, "None")]

alloc_fd(t) ==
    IF \E fd \in 0..(Len(t) - 1) : t[fd + 1] = "None"
    THEN [fd |-> Least({fd \in 0..(Len(t) - 1) : t[fd + 1] = "None"}), table |-> t]
    ELSE [fd |-> Len(t), table |-> Append(t, "None")]

\* results carry the state of the file system (S), which open_file may change
sys_open(t, S, name, flags) ==
    With(open_file(S, name, flags), LAMBDA o :
        IF ~o.ok THEN [ok |-> FALSE, ret |-> -1, table |-> t, S |-> S]
        ELSE IF o.ret = NoneInode THEN [ok |-> TRUE, ret |-> -1, table |-> t, S |-> o.S]
        ELSE With(alloc_fd(t), LAMBDA a :
                 [ok |-> TRUE, ret |-> a.fd,
                  table |-> [a.table EXCEPT ![a.fd + 1] = "File"], S |-> o.S]))

sys_close(t, fd) ==
    IF fd >= Len(t) THEN [ret |-> -1, table |-> t]
    ELSE IF t[fd + 1] = "None" THEN [ret |-> -1, table |-> t]
    ELSE [ret |-> 0, table |-> [t EXCEPT ![fd + 1] = "None"]]

sys_pipe(t) ==
    With(alloc_fd(t), LAMBDA r :
    With(alloc_fd([r.table EXCEPT ![r.fd + 1] = "PipeRead"]), LAMBDA w :
        [ret |-> 0, read_fd |-> r.fd, write_fd |-> w.fd,
         table |-> [w.table EXCEPT ![w.fd + 1] = "PipeWrite"]]))

sys_dup(t, fd) ==
    IF fd >= Len(t) THEN [ret |-> -1, table |-> t]
    ELSE IF t[fd + 1] = "None" THEN [ret |-> -1, table |-> t]
    ELSE With(alloc_fd(t), LAMBDA a :
             [ret |-> a.fd, table |-> [a.table EXCEPT ![a.fd + 1] = a.table[fd + 1]]])

(* SpecFd: one process, from the fd table ProcessControlBlock::new gives it, *)
(* calls open, close, pipe and dup in any order.                             *)
MaxFds == 5
MaxFdOps == 4
FdOpenFlags == {READ_ONLY, CREATE + WRITE_ONLY}

FdInit ==
    /\ fd_table = <<"Stdin", "Stdout", "Stdout">>
    /\ fdLast = [op |-> "none", fd |-> -1, ret |-> -1, ret2 |-> -1, before |-> <<>>,
                 closed |-> -1, n |-> 0]

\* the record of a call; closed is the fd the call right before it closed
FdRecord(op, fd, ret, ret2) ==
    [op |-> op, fd |-> fd, ret |-> ret, ret2 |-> ret2, before |-> fd_table,
     closed |-> IF fdLast.op = "close" /\ fdLast.ret = 0 THEN fdLast.fd ELSE -1,
     n |-> fdLast.n + 1]

FdOpen(name, flags) ==
    /\ fdLast.n < MaxFdOps
    /\ \E r \in {sys_open(fd_table, FsState, name, flags)} :
          /\ r.ok
          /\ Len(r.table) <= MaxFds
          /\ SetFs(r.S)
          /\ fd_table' = r.table
          /\ fdLast' = FdRecord("open", -1, r.ret, -1)
    /\ UNCHANGED <<fsLast, rt>>
    /\ UNCHANGED notFsFd

FdClose(fd) ==
    /\ fdLast.n < MaxFdOps
    /\ \E r \in {sys_close(fd_table, fd)} :
          /\ fd_table' = r.table
          /\ fdLast' = FdRecord("close", fd, r.ret, -1)
    /\ UNCHANGED notFd

FdPipe ==
    /\ fdLast.n < MaxFdOps
    /\ \E r \in {sys_pipe(fd_table)} :
          /\ Len(r.table) <= MaxFds
          /\ fd_table' = r.table
          /\ fdLast' = FdRecord("pipe", -1, r.read_fd, r.write_fd)
    /\ UNCHANGED notFd

FdDup(fd) ==
    /\ fdLast.n < MaxFdOps
    /\ \E r \in {sys_dup(fd_table, fd)} :
          /\ Len(r.table) <= MaxFds
          /\ fd_table' = r.table
          /\ fdLast' = FdRecord("dup", fd, r.ret, -1)
    /\ UNCHANGED notFd

NextFd ==
    \/ \E flags \in FdOpenFlags : FdOpen(1, flags)
    \/ \E fd \in 0..MaxFds : FdClose(fd)
    \/ FdPipe
    \/ \E fd \in 0..MaxFds : FdDup(fd)

----------------------------------------------------------------------------
(* SpecRing: the ring buffer on its own, one read_byte or write_byte per    *)
(* step, each called as Pipe::read and Pipe::write call it: read_byte only  *)
(* when available_read() > 0, write_byte only when available_write() > 0.   *)

RingReadByte ==
    /\ available_read(pipe) > 0
    /\ pipe' = read_byte(pipe).p
    /\ UNCHANGED <<rd, wr, ph>>
    /\ UNCHANGED notPipe

RingWriteByte(b) ==
    /\ available_write(pipe) > 0
    /\ pipe' = write_byte(pipe, b)
    /\ UNCHANGED <<rd, wr, ph>>
    /\ UNCHANGED notPipe

NextRing == RingReadByte \/ \E b \in Bytes : RingWriteByte(b)

----------------------------------------------------------------------------
(* SpecAlloc: the three RecycleAllocators (PID_ALLOCATOR, KSTACK_ALLOCATOR   *)
(* and a process's task_res_allocator) on their own.  An id is handed out by *)
(* alloc and given back when its holder (PidHandle, KernelStack,             *)
(* TaskUserRes) is dropped; only ids that are held are given back.           *)

MaxIds == 3
AllocKinds == {"pid", "kstack", "tid"}

AllocInit ==
    /\ allocators = [k \in AllocKinds |-> RecycleAllocator_new]
    /\ al = [held |-> [k \in AllocKinds |-> {}], op |-> "none", kind |-> "none",
             id |-> -1, ok |-> TRUE, before |-> RecycleAllocator_new]

\* pid_alloc, kstack_alloc, alloc_tid
IdAlloc(k) ==
    /\ al.ok
    /\ Cardinality(al.held[k]) < MaxIds
    /\ \E r \in {RecycleAllocator_alloc(allocators[k])} :
          /\ allocators' = [allocators EXCEPT ![k] = r.a]
          /\ al' = [held |-> [al.held EXCEPT ![k] = @ \cup {r.id}], op |-> "alloc",
                    kind |-> k, id |-> r.id, ok |-> TRUE, before |-> allocators[k]]
    /\ UNCHANGED notAlloc

\* drop of the PidHandle, KernelStack or TaskUserRes that holds id; a failed
\* assertion in dealloc is a kernel panic, after which nothing runs
IdDrop(k, id) ==
    /\ al.ok
    /\ id \in al.held[k]
    /\ \E r \in {RecycleAllocator_dealloc(allocators[k], id)} :
          /\ allocators' = [allocators EXCEPT ![k] = r.a]
          /\ al' = [held |-> IF r.ok THEN [al.held EXCEPT ![k] = @ \ {id}] ELSE al.held,
                    op |-> "dealloc", kind |-> k, id |-> id, ok |-> r.ok,
                    before |-> allocators[k]]
    /\ UNCHANGED notAlloc

NextAlloc ==
    \/ \E k \in AllocKinds : IdAlloc(k)
    \/ \E k \in AllocKinds, id \in 0..MaxIds : IdDrop(k, id)

----------------------------------------------------------------------------
(* os/src/task/process.rs (ProcessControlBlock), os/src/syscall/thread.rs,   *)
(* os/src/task/mod.rs (exit_current_and_run_next): one process P, forked by  *)
(* the init process, with its threads.  P's threads are numbered 1, 2, ...   *)
(* in the order of their creation (thread 1 is the main thread); a child     *)
(* process's main thread is written -pid.  p is the record                   *)
(*   tasks      ProcessControlBlockInner.tasks, 0 for None                   *)
(*   thr        thread -> [state, tid, res, exit_code], exit_code <<>> or    *)
(*              <<c>>, res FALSE once the TaskUserRes is dropped             *)
(*   task_res_allocator, pid_allocator   the RecycleAllocators               *)
(*   is_zombie, exit_code, children      of P                                *)
(*   pid_to_pcb     the pids in PID_TO_PCB                                   *)
(*   parent         child pid -> pid of its parent                           *)
(*   init_children  INITPROC's children                                      *)
(*   current, ready_queue   PROCESSOR.current (0 is None), TASK_MANAGER      *)
(*   panicked       a panic has stopped the kernel                           *)

InitPid == 0
PPid == 1
MaxThr == 3
MaxChildren == 2
MaxArgc == 1
NoThread == [state |-> "none", tid |-> -1, res |-> FALSE, exit_code |-> <<>>]

thread_count(p) == Len(p.tasks)

Panic(p) == [p EXCEPT !.panicked = TRUE]

LiveThreads(p) == {t \in 1..MaxThr : p.thr[t].state = "live"}

\* suspend_current_and_run_next followed by run_tasks' fetch
YieldTo(p) ==
    [p EXCEPT !.current = Head(Append(p.ready_queue, p.current)),
              !.ready_queue = Tail(Append(p.ready_queue, p.current))]

\* ProcessControlBlock::fork, called by P's running thread
ProcessControlBlock_fork(p) ==
    IF Len(p.tasks) > 1 THEN [ret |-> -1, p |-> Panic(p)]
    ELSE With(RecycleAllocator_alloc(p.pid_allocator), LAMBDA a :
         IF a.id \in p.pid_to_pcb THEN [ret |-> -1, p |-> Panic(p)]
         ELSE [ret |-> a.id,
               p |-> [p EXCEPT !.pid_allocator = a.a,
                               !.children = Append(@, a.id),
                               !.parent = [c \in DOMAIN @ \cup {a.id} |->
                                              IF c = a.id THEN PPid ELSE @[c]],
                               !.pid_to_pcb = @ \cup {a.id},
                               !.ready_queue = Append(@, -a.id)]])

\* sys_thread_create: the new thread is stored in the slot of the creating
\* thread's tid (task_res is the creator's), and that tid is returned
sys_thread_create(p) ==
    With(RecycleAllocator_alloc(p.task_res_allocator), LAMBDA a :
    With(Cardinality({t \in 1..MaxThr : p.thr[t].state # "none"}) + 1, LAMBDA new_task :
    With(p.thr[p.current].tid, LAMBDA tid :
        [ret |-> tid,
         p |-> [p EXCEPT !.task_res_allocator = a.a,
                         !.thr[new_task] = [state |-> "live", tid |-> a.id, res |-> TRUE,
                                            exit_code |-> <<>>],
                         !.ready_queue = Append(@, new_task),
                         !.tasks = [i \in 1..(IF Len(@) <= tid THEN tid + 1 ELSE Len(@)) |->
                                       IF i = tid + 1 THEN new_task
                                       ELSE IF i <= Len(@) THEN @[i] ELSE 0]]])))

\* sys_waittid(tid); tasks[tid] panics when tid is not an index of tasks
sys_waittid(p, tid) ==
    IF p.thr[p.current].tid = tid THEN [ret |-> -1, p |-> p]
    ELSE IF tid >= Len(p.tasks) THEN [ret |-> -1, p |-> Panic(p)]
    ELSE IF p.tasks[tid + 1] = 0 THEN [ret |-> -1, p |-> p]
    ELSE With(p.thr[p.tasks[tid + 1]].exit_code, LAMBDA exit_code :
         IF exit_code # <<>>
         THEN [ret |-> exit_code[1], p |-> [p EXCEPT !.tasks[tid + 1] = 0]]
         ELSE [ret |-> -2, p |-> p])

\* ProcessControlBlock::exec with args.len() = argc: [check, ok, x10, x11, p].
\* check is the outcome of assert_eq!(thread_count(), 1).  The function
\* borrows the process a second time while process_inner is held; borrowed is
\* whether the cell (UPSafeCell, not part of these sources) refuses that.
\* x11 is argv_base: argc + 1 words below the user stack top of the thread.
ProcessControlBlock_exec(p, argc, borrowed) ==
    IF thread_count(p) # 1
    THEN [check |-> "failed", ok |-> FALSE, x10 |-> -1, x11 |-> <<>>, p |-> Panic(p)]
    ELSE IF borrowed \/ p.tasks[1] = 0 \/ ~p.thr[p.tasks[1]].res
    THEN [check |-> "passed", ok |-> FALSE, x10 |-> -1, x11 |-> <<>>, p |-> Panic(p)]
    ELSE [check |-> "passed", ok |-> TRUE, x10 |-> argc,
          x11 |-> <<p.thr[p.tasks[1]].tid, argc + 1>>, p |-> p]

\* the drops of the TaskUserRes of the threads ts (a sequence), one by one:
\* Drop for TaskUserRes calls dealloc_tid
RECURSIVE DropUserRes(_, _)
DropUserRes(p, ts) ==
    IF ts = <<>> \/ p.panicked THEN p
    ELSE IF ~p.thr[Head(ts)].res THEN DropUserRes(p, Tail(ts))
    ELSE With(RecycleAllocator_dealloc(p.task_res_allocator, p.thr[Head(ts)].tid), LAMBDA d :
         IF ~d.ok THEN Panic(p)
         ELSE DropUserRes([p EXCEPT !.task_res_allocator = d.a,
                                    !.thr[Head(ts)].res = FALSE], Tail(ts)))

\* exit_current_and_run_next(exit_code), with the fetch of run_tasks that
\* follows schedule()
exit_current_and_run_next(p, exit_code) ==
    With(p.current, LAMBDA exiting :
    With(p.thr[exiting].tid, LAMBDA tid :
    With(DropUserRes([p EXCEPT !.thr[exiting].exit_code = <<exit_code>>,
                               !.thr[exiting].state = "exited"], <<exiting>>), LAMBDA p1 :
        IF p1.panicked THEN p1
        ELSE With(IF tid # 0 THEN p1
                  ELSE IF PPid \notin p1.pid_to_pcb THEN Panic(p1)
                  ELSE DropUserRes(
                         [p1 EXCEPT !.pid_to_pcb = @ \ {PPid},
                                    !.is_zombie = TRUE,
                                    !.exit_code = exit_code,
                                    !.parent = [c \in DOMAIN @ |->
                                                   IF c \in SeqRange(p1.children)
                                                   THEN InitPid ELSE @[c]],
                                    !.init_children = @ \o p1.children,
                                    !.children = <<>>],
                         SelectSeq(p1.tasks, LAMBDA t : t # 0)), LAMBDA p2 :
             IF p2.panicked THEN p2
             ELSE IF p2.ready_queue = <<>> THEN [p2 EXCEPT !.current = 0]
             ELSE [p2 EXCEPT !.current = Head(p2.ready_queue),
                             !.ready_queue = Tail(p2.ready_queue)]))))

(* The requests for exclusive access to P's inner cell (ACQ, a call of      *)
(* inner_exclusive_access on P) and the ends of the guards' lives (REL)     *)
(* that an operation makes, in program order, up to its return or to the    *)
(* panic that stops it.                                                     *)
ACQ == "inner_exclusive_access"
REL == "drop"

\* Drop for TaskUserRes of the thread with this tid: dealloc_tid, whose guard
\* is a temporary of the statement that calls RecycleAllocator::dealloc, then
\* dealloc_user_res
TaskUserRes_drop_accesses(a, tid) ==
    IF RecycleAllocator_dealloc(a, tid).ok THEN <<ACQ, REL, ACQ, REL>> ELSE <<ACQ>>

\* fork: parent_inner from the first statement to the return
inner_accesses_fork(p) == <<ACQ, REL>>

\* exec: process_inner lives to the end of the function (get_task(0) uses it);
\* the assignment of memory_set takes a second guard, and so do
\* alloc_user_res and trap_cx_ppn of the main thread's TaskUserRes
inner_accesses_exec(p, borrowed) ==
    IF thread_count(p) # 1 THEN <<ACQ>>
    ELSE IF borrowed THEN <<ACQ, ACQ>>
    ELSE IF p.tasks[1] = 0 \/ ~p.thr[p.tasks[1]].res THEN <<ACQ, ACQ, REL>>
    ELSE <<ACQ, ACQ, REL, ACQ, REL, ACQ, REL, REL>>

\* sys_thread_create: TaskUserRes::new (alloc_tid, alloc_user_res) inside
\* TaskControlBlock::new, then process_inner to the return
inner_accesses_thread_create(p) == <<ACQ, REL, ACQ, REL, ACQ, REL>>

\* sys_waittid: process_inner to the return
inner_accesses_waittid(p, tid) == <<ACQ, REL>>

\* exit_current_and_run_next: the drop of the exiting thread's TaskUserRes
\* (task_inner.res = None), and for tid 0 process_inner, under which the
\* TaskUserRes of every other thread that still has one is dropped
inner_accesses_exit(p) ==
    With(p.current, LAMBDA exiting :
    With(TaskUserRes_drop_accesses(p.task_res_allocator, p.thr[exiting].tid), LAMBDA own :
        IF Len(own) = 1 \/ p.thr[exiting].tid # 0 THEN own
        ELSE IF PPid \notin p.pid_to_pcb THEN own
        ELSE IF \E i \in 1..Len(p.tasks) :
                   p.tasks[i] \notin {0, exiting} /\ p.thr[p.tasks[i]].res
        THEN own \o <<ACQ, ACQ>>
        ELSE own \o <<ACQ, REL>>))

(* SpecThread: P's threads create threads, fork, wait for threads, exec and *)
(* exit, and yield to each other and to the children's threads.             *)
ExitCodesTried == {0, 5}

ThreadInit ==
    /\ pr = [tasks |-> <<1>>,
             thr |-> [t \in 1..MaxThr |->
                         IF t = 1 THEN [state |-> "live", tid |-> 0, res |-> TRUE,
                                        exit_code |-> <<>>]
                         ELSE NoThread],
             task_res_allocator |-> RecycleAllocator_alloc(RecycleAllocator_new).a,
             pid_allocator |->
                 RecycleAllocator_alloc(RecycleAllocator_alloc(RecycleAllocator_new).a).a,
             is_zombie |-> FALSE, exit_code |-> 0, children |-> <<>>,
             pid_to_pcb |-> {InitPid, PPid}, parent |-> <<>>, init_children |-> <<PPid>>,
             current |-> 1, ready_queue |-> <<>>, panicked |-> FALSE]
    /\ thLast = [op |-> "none", caller |-> 0, tid |-> -1, arg |-> -1, ret |-> -1,
                 check |-> "none", ok |-> TRUE, x10 |-> -1, x11 |-> <<>>,
                 threads |-> 0, before |-> <<>>, inner |-> <<>>]

\* a thread of P is running and the kernel has not panicked
Running == ~pr.panicked /\ pr.current > 0

ThRecord(op, arg, ret) ==
    [op |-> op, caller |-> pr.current,
     tid |-> IF pr.current > 0 THEN pr.thr[pr.current].tid ELSE -1, arg |-> arg,
     ret |-> ret, check |-> "none", ok |-> TRUE, x10 |-> -1, x11 |-> <<>>,
     threads |-> Cardinality(LiveThreads(pr)), before |-> <<>>, inner |-> <<>>]

ThYield ==
    /\ ~pr.panicked
    /\ pr.current # 0
    /\ pr.ready_queue # <<>>
    /\ pr' = YieldTo(pr)
    /\ thLast' = ThRecord("yield", -1, 0)
    /\ UNCHANGED notThread

ThFork ==
    /\ Running
    /\ Len(pr.children) < MaxChildren
    /\ \E r \in {ProcessControlBlock_fork(pr)} :
          /\ pr' = r.p
          /\ thLast' = [ThRecord("fork", -1, r.ret) EXCEPT
                           !.ok = ~r.p.panicked, !.inner = inner_accesses_fork(pr)]
    /\ UNCHANGED notThread

ThCreate ==
    /\ Running
    /\ pr.thr[MaxThr].state = "none"
    /\ \E r \in {sys_thread_create(pr)} :
          /\ pr' = r.p
          /\ thLast' = [ThRecord("thread_create", -1, r.ret) EXCEPT
                           !.before = <<pr>>,
                           !.inner = inner_accesses_thread_create(pr)]
    /\ UNCHANGED notThread

ThWaittid(tid) ==
    /\ Running
    /\ \E r \in {sys_waittid(pr, tid)} :
          /\ pr' = r.p
          /\ thLast' = [ThRecord("waittid", tid, r.ret) EXCEPT
                           !.ok = ~r.p.panicked, !.inner = inner_accesses_waittid(pr, tid)]
    /\ UNCHANGED notThread

ThExec(argc, borrowed) ==
    /\ Running
    /\ \E r \in {ProcessControlBlock_exec(pr, argc, borrowed)} :
          /\ pr' = r.p
          /\ thLast' = [ThRecord("exec", argc, -1) EXCEPT
                           !.check = r.check, !.ok = r.ok, !.x10 = r.x10, !.x11 = r.x11,
                           !.inner = inner_accesses_exec(pr, borrowed)]
    /\ UNCHANGED notThread

ThExit(exit_code) ==
    /\ Running
    /\ \E p \in {exit_current_and_run_next(pr, exit_code)} :
          /\ pr' = p
          /\ thLast' = [ThRecord("exit", exit_code, -1) EXCEPT
                           !.ok = ~p.panicked, !.before = <<pr>>,
                           !.inner = inner_accesses_exit(pr)]
    /\ UNCHANGED notThread

NextThread ==
    \/ ThYield
    \/ ThFork
    \/ ThCreate
    \/ \E tid \in 0..MaxThr : ThWaittid(tid)
    \/ \E argc \in 0..MaxArgc, borrowed \in BOOLEAN : ThExec(argc, borrowed)
    \/ \E exit_code \in ExitCodesTried : ThExit(exit_code)

----------------------------------------------------------------------------
(* easy-fs/src/efs.rs: EasyFileSystem::create and EasyFileSystem::open for  *)
(* any device size and any number of inode bitmap blocks.  The counts are   *)
(* u32: a subtraction below zero panics (ok is FALSE), and no super block   *)
(* is written then.  efs holds the start block of each region, the two      *)
(* bitmaps as Bitmap::new(start_block_id, blocks).                          *)

\* Bitmap::maximum
Bitmap_maximum(bitmap) == bitmap.blocks * BLOCK_BITS

NoSuperBlock == [magic |-> 0, total_blocks |-> 0, inode_bitmap_blocks |-> 0,
                 inode_area_blocks |-> 0, data_bitmap_blocks |-> 0, data_area_blocks |-> 0]
EFS_MAGIC == 1
NoEfs == [inode_bitmap |-> [start_block_id |-> 0, blocks |-> 0],
          data_bitmap |-> [start_block_id |-> 0, blocks |-> 0],
          inode_area_start_block |-> 0, data_area_start_block |-> 0]

\* the number of bitmap blocks create gives data_total_blocks blocks: rounded down
data_bitmap_blocks_Floor(data_total_blocks) ==
    data_total_blocks \div (BLOCK_BITS + 1)

\* the number of bitmap blocks create gives data_total_blocks blocks
data_bitmap_blocks(data_total_blocks) ==
    (data_total_blocks + BLOCK_BITS) \div (BLOCK_BITS + 1)

\* device_blocks is the parameter total_blocks, bitmap the local inode_bitmap
EasyFileSystem_create(device_blocks, inode_bitmap_blocks) ==
    LET bitmap == [start_block_id |-> 1, blocks |-> inode_bitmap_blocks]
        inode_num == Bitmap_maximum(bitmap)
        inode_area_blocks == (inode_num + INODES_PER_BLOCK - 1) \div INODES_PER_BLOCK
        inode_total_block == inode_bitmap_blocks + inode_area_blocks
        data_total_blocks == device_blocks - 1 - inode_total_block
        dbb == data_bitmap_blocks(data_total_blocks)
        data_area_blocks == data_total_blocks - dbb
        super_block == [magic |-> EFS_MAGIC, total_blocks |-> device_blocks,
                        inode_bitmap_blocks |-> inode_bitmap_blocks,
                        inode_area_blocks |-> inode_area_blocks,
                        data_bitmap_blocks |-> dbb, data_area_blocks |-> data_area_blocks]
        efs == [inode_bitmap |-> bitmap,
                data_bitmap |-> [start_block_id |-> 1 + inode_bitmap_blocks + inode_area_blocks,
                                 blocks |-> dbb],
                inode_area_start_block |-> 1 + inode_bitmap_blocks,
                data_area_start_block |-> 1 + inode_total_block + dbb]
    IN  IF device_blocks - 1 < 0 \/ data_total_blocks < 0 \/ data_area_blocks < 0
        THEN [ok |-> FALSE, super_block |-> NoSuperBlock, efs |-> NoEfs]
        \* assert_eq!(efs.alloc_inode(), 0): with no inode bitmap block the alloc fails
        ELSE [ok |-> inode_bitmap_blocks > 0, super_block |-> super_block, efs |-> efs]

EasyFileSystem_open(super_block) ==
    LET inode_total_blocks == super_block.inode_bitmap_blocks + super_block.inode_area_blocks
    IN  IF super_block.magic # EFS_MAGIC THEN [ok |-> FALSE, efs |-> NoEfs]
        ELSE [ok |-> TRUE,
              efs |-> [inode_bitmap |-> [start_block_id |-> 1,
                                         blocks |-> super_block.inode_bitmap_blocks],
                       data_bitmap |-> [start_block_id |-> 1 + inode_total_blocks,
                                        blocks |-> super_block.data_bitmap_blocks],
                       inode_area_start_block |-> 1 + super_block.inode_bitmap_blocks,
                       data_area_start_block |->
                           1 + inode_total_blocks + super_block.data_bitmap_blocks]]

(* SpecMkfs: a file system is made on a device of any size up to            *)
(* MaxTotalBlocks with up to MaxInodeBitmapBlocks inode bitmap blocks, and   *)
(* then opened from its super block.                                        *)
MaxTotalBlocks == 40
MaxInodeBitmapBlocks == 2

MkfsInit ==
    mkfs = [pc |-> "blank", total_blocks |-> 0, inode_bitmap_blocks |-> 0,
            super_block |-> NoSuperBlock, efs |-> NoEfs, ok |-> TRUE]

MkCreate(device_blocks, inode_bitmap_blocks) ==
    /\ mkfs.pc = "blank"
    /\ \E r \in {EasyFileSystem_create(device_blocks, inode_bitmap_blocks)} :
         mkfs' = [pc |-> "created", total_blocks |-> device_blocks,
                  inode_bitmap_blocks |-> inode_bitmap_blocks,
                  super_block |-> r.super_block, efs |-> r.efs, ok |-> r.ok]
    /\ UNCHANGED notMkfs

MkOpen ==
    /\ mkfs.pc = "created"
    /\ \E r \in {EasyFileSystem_open(mkfs.super_block)} :
         mkfs' = [mkfs EXCEPT !.pc = "opened", !.efs = r.efs, !.ok = r.ok]
    /\ UNCHANGED notMkfs

NextMkfs ==
    \/ \E device_blocks \in 0..MaxTotalBlocks, inode_bitmap_blocks \in 0..MaxInodeBitmapBlocks :
         MkCreate(device_blocks, inode_bitmap_blocks)
    \/ MkOpen

----------------------------------------------------------------------------
(* The exclusive-access guards around the suspension points.  Two threads   *)
(* of one process run system calls statement by statement; the hart changes *)
(* hands only in suspend_current_and_run_next, block_current_and_run_next   *)
(* and run_tasks.  A cell is "process" (the process inner state), "ring"    *)
(* (the pipe's ring buffer), "spin" and "blocking" (the state of a          *)
(* MutexSpin and of a MutexBlocking) or <<"task", t>> (the task inner state *)
(* of thread t).  g is the record                                           *)
(*   cur, rq      the thread that has the hart (0 in the idle loop of       *)
(*                run_tasks) and the ready queue                            *)
(*   th           thread -> [op, pc, rem]: the call it is in, the statement *)
(*                it is at, the bytes left in its user buffer               *)
(*   held         the guards alive, as pairs <<cell, thread>>               *)
(*   ring, spin, bm   the ring buffer, MutexSpin.locked, the MutexBlocking  *)
(*   tk           thread -> its signal fields                               *)
(*   at_call      the call of a suspension function that gave up the hart,  *)
(*                until run_tasks dispatches the next thread: the caller,   *)
(*                the function it came from, the guards the caller held     *)
(*   conflict     exclusive access was requested to a cell with a live guard *)

GThreads == {1, 2}

Acquire(g, t, cell) ==
    IF \E h \in g.held : h[1] = cell THEN [g EXCEPT !.conflict = TRUE]
    ELSE [g EXCEPT !.held = @ \cup {<<cell, t>>}]

Release(g, t, cell) == [g EXCEPT !.held = @ \ {<<cell, t>>}]

Goto(g, t, pc) == [g EXCEPT !.th[t].pc = pc]

HeldBy(g, t) == {c[1] : c \in {h \in g.held : h[2] = t}}

\* suspend_current_and_run_next called by t from the call `from`; t goes on
\* at `resume` when it is dispatched again
GdSuspend(g, t, from, resume) ==
    With([g EXCEPT !.at_call = [t |-> t, from |-> from, held |-> HeldBy(g, t)],
                   !.cur = 0], LAMBDA g1 :
    With(Acquire(g1, t, <<"task", t>>), LAMBDA g2 :
        IF g2.conflict THEN g2
        ELSE [Release(g2, t, <<"task", t>>) EXCEPT
                 !.rq = TaskManager_add(@, t), !.th[t].pc = resume]))

\* block_current_and_run_next called by t
GdBlock(g, t, from, resume) ==
    With([g EXCEPT !.at_call = [t |-> t, from |-> from, held |-> HeldBy(g, t)]],
         LAMBDA g1 :
    With(Acquire(g1, t, <<"task", t>>), LAMBDA g2 :
        IF g2.conflict THEN g2
        ELSE [Release(g2, t, <<"task", t>>) EXCEPT !.cur = 0, !.th[t].pc = resume]))

\* sys_read, sys_write: process_inner is taken, the file is cloned out of the
\* fd table and process_inner is dropped before file.read / file.write;
\* sys_mutex_lock, sys_mutex_unlock do the same with the mutex
syscall_prologue(g, t, body) ==
    IF g.th[t].pc = "process_inner" THEN Goto(Acquire(g, t, "process"), t, "drop")
    ELSE Goto(Release(g, t, "process"), t, body)

\* the ring buffer after n read_byte calls
RECURSIVE ReadN(_, _)
ReadN(p, n) == IF n = 0 THEN p ELSE ReadN(read_byte(p).p, n - 1)

\* the ring buffer after n write_byte calls
RECURSIVE WriteN(_, _)
WriteN(p, n) == IF n = 0 THEN p ELSE WriteN(write_byte(p, 0), n - 1)

\* Pipe::read by statements: exclusive_access, the test of available_read,
\* the for loop, and the call of suspend_current_and_run_next
Pipe_read_step(g, t) ==
    With(g.th[t], LAMBDA c :
    With(available_read(g.ring), LAMBDA loop_read_size :
        IF c.pc = "exclusive_access" THEN Goto(Acquire(g, t, "ring"), t, "available")
        ELSE IF c.pc = "suspend" THEN GdSuspend(g, t, "Pipe::read", "exclusive_access")
        ELSE IF loop_read_size = 0
        THEN IF all_write_ends_closed(g.ring) THEN Goto(Release(g, t, "ring"), t, "return")
             ELSE Goto(Release(g, t, "ring"), t, "suspend")
        ELSE IF c.rem < loop_read_size
        THEN [Release(g, t, "ring") EXCEPT !.ring = ReadN(@, c.rem),
                                           !.th[t] = [c EXCEPT !.rem = 0, !.pc = "return"]]
        ELSE [Release(g, t, "ring") EXCEPT
                 !.ring = ReadN(@, loop_read_size),
                 !.th[t] = [c EXCEPT !.rem = @ - loop_read_size, !.pc = "exclusive_access"]]))

Pipe_write_step(g, t) ==
    With(g.th[t], LAMBDA c :
    With(available_write(g.ring), LAMBDA loop_write_size :
        IF c.pc = "exclusive_access" THEN Goto(Acquire(g, t, "ring"), t, "available")
        ELSE IF c.pc = "suspend" THEN GdSuspend(g, t, "Pipe::write", "exclusive_access")
        ELSE IF loop_write_size = 0 THEN Goto(Release(g, t, "ring"), t, "suspend")
        ELSE IF c.rem < loop_write_size
        THEN [Release(g, t, "ring") EXCEPT !.ring = WriteN(@, c.rem),
                                           !.th[t] = [c EXCEPT !.rem = 0, !.pc = "return"]]
        ELSE [Release(g, t, "ring") EXCEPT
                 !.ring = WriteN(@, loop_write_size),
                 !.th[t] = [c EXCEPT !.rem = @ - loop_write_size, !.pc = "exclusive_access"]]))

\* a faulty MutexSpin::lock, which keeps the guard over the suspension
MutexSpin_lock_step_NoDrop(g, t) ==
    IF g.th[t].pc = "exclusive_access" THEN Goto(Acquire(g, t, "spin"), t, "locked")
    ELSE IF g.th[t].pc = "suspend" THEN GdSuspend(g, t, "MutexSpin::lock", "locked")
    ELSE IF g.spin THEN Goto(g, t, "suspend")
    ELSE Goto([Release(g, t, "spin") EXCEPT !.spin = TRUE], t, "return")

\* MutexSpin::lock by statements
MutexSpin_lock_step(g, t) ==
    IF g.th[t].pc = "exclusive_access" THEN Goto(Acquire(g, t, "spin"), t, "locked")
    ELSE IF g.th[t].pc = "suspend"
    THEN GdSuspend(g, t, "MutexSpin::lock", "exclusive_access")
    ELSE IF g.spin THEN Goto(Release(g, t, "spin"), t, "suspend")
    ELSE Goto([Release(g, t, "spin") EXCEPT !.spin = TRUE], t, "return")

\* MutexSpin::unlock
MutexSpin_unlock_step(g, t) ==
    With(Acquire(g, t, "spin"), LAMBDA g1 :
        IF g1.conflict THEN g1
        ELSE Goto([Release(g1, t, "spin") EXCEPT !.spin = FALSE], t, "return"))

\* MutexBlocking::lock by statements
MutexBlocking_lock_step(g, t) ==
    IF g.th[t].pc = "exclusive_access" THEN Goto(Acquire(g, t, "blocking"), t, "locked")
    ELSE IF g.th[t].pc = "block" THEN GdBlock(g, t, "MutexBlocking::lock", "return")
    ELSE With(MutexBlocking_lock(g.bm, t), LAMBDA r :
         Goto([Release(g, t, "blocking") EXCEPT !.bm = r.m], t,
              IF r.block THEN "block" ELSE "return"))

\* MutexBlocking::unlock of a locked mutex
MutexBlocking_unlock_step(g, t) ==
    With(Acquire(g, t, "blocking"), LAMBDA g1 :
        IF g1.conflict THEN g1
        ELSE With(MutexBlocking_unlock(g.bm, g.rq), LAMBDA r :
             Goto([Release(g1, t, "blocking") EXCEPT !.bm = r.m, !.rq = r.rq], t, "return")))

\* check_pending_signals of thread t: the guard on the task inner state is
\* dropped before a handler is called, which takes it again, and at the end
\* of every iteration
GdCheck(g, t) ==
    With(Acquire(g, t, <<"task", t>>), LAMBDA g1 :
        IF g1.conflict THEN g1
        ELSE With(check_pending_signals(g.tk[t]), LAMBDA r :
             [Release(g1, t, <<"task", t>>) EXCEPT !.tk[t] = r.t]))

\* a faulty handle_signals, which tests killed only
handle_signals_step_NoFreeze(g, t) ==
    With(g.th[t].pc, LAMBDA pc :
        IF pc = "check_pending_signals" THEN Goto(GdCheck(g, t), t, "exclusive_access")
        ELSE IF pc = "exclusive_access"
        THEN Goto(Acquire(g, t, <<"task", t>>), t, "flags")
        ELSE IF pc = "flags"
        THEN Goto(Release(g, t, <<"task", t>>), t,
                  IF ~g.tk[t].killed THEN "return" ELSE "check_in_loop")
        ELSE IF pc = "check_in_loop" THEN Goto(GdCheck(g, t), t, "suspend")
        ELSE GdSuspend(g, t, "handle_signals", "exclusive_access"))

\* handle_signals by statements: check_pending_signals, the read of frozen
\* and killed under the guard, the test, check_pending_signals again and
\* suspend_current_and_run_next
handle_signals_step(g, t) ==
    With(g.th[t].pc, LAMBDA pc :
        IF pc = "check_pending_signals" THEN Goto(GdCheck(g, t), t, "exclusive_access")
        ELSE IF pc = "exclusive_access"
        THEN Goto(Acquire(g, t, <<"task", t>>), t, "flags")
        ELSE IF pc = "flags"
        THEN Goto(Release(g, t, <<"task", t>>), t,
                  IF ~g.tk[t].frozen \/ g.tk[t].killed THEN "return" ELSE "check_in_loop")
        ELSE IF pc = "check_in_loop" THEN Goto(GdCheck(g, t), t, "suspend")
        ELSE GdSuspend(g, t, "handle_signals", "exclusive_access"))

\* sys_kill(pid, signum) for the pid of thread u
sys_kill_step(g, t, u, signum) ==
    With(Acquire(g, t, <<"task", u>>), LAMBDA g1 :
        IF g1.conflict THEN g1
        ELSE Goto([Release(g1, t, <<"task", u>>) EXCEPT
                      !.tk[u] = sys_kill(g.tk[u], signum).t], t, "return"))

NoSuspendCall == [t |-> 0, from |-> "none", held |-> {}]

\* run_tasks: a thread is fetched, marked Running under the guard on its
\* task inner state and made the current thread
GdRunTasks(g) ==
    With(TaskManager_fetch(g.rq), LAMBDA f :
    With(Acquire(g, f.task, <<"task", f.task>>), LAMBDA g1 :
        IF g1.conflict THEN g1
        ELSE [Release(g1, f.task, <<"task", f.task>>) EXCEPT
                 !.rq = f.rq, !.cur = f.task, !.at_call = NoSuspendCall]))

(* SpecGuard *)
GuardLens == {RING_BUFFER_SIZE}
GuardKills == {SIGSTOP, SIGCONT, SIGKILL}
GuardCalls == {"sys_read", "sys_write", "spin_lock", "spin_unlock", "blocking_lock",
               "blocking_unlock", "handle_signals", "sys_yield"}

GuardInit ==
    gd = [cur |-> 0, rq |-> [i \in GThreads |-> i],
          th |-> [t \in GThreads |-> [op |-> "user", pc |-> "user", rem |-> 0]],
          held |-> {}, ring |-> PipeRingBuffer_new, spin |-> FALSE, bm |-> MutexBlocking_new,
          tk |-> [t \in GThreads |-> SigTaskInit],
          at_call |-> NoSuspendCall,
          conflict |-> FALSE]

\* the thread that has the hart
GdRunning == ~gd.conflict /\ gd.cur # 0

GdAt(op) == GdRunning /\ gd.th[gd.cur].op = op

\* a thread in user mode makes a system call, or traps and the trap handler
\* calls handle_signals
GdCall(op, len) ==
    /\ GdAt("user")
    /\ ~gd.tk[gd.cur].killed
    /\ op \in {"sys_read", "sys_write"} <=> len > 0
    /\ op = "blocking_unlock" => gd.bm.locked
    /\ gd' = [gd EXCEPT !.th[gd.cur] =
                 [op |-> op, rem |-> len,
                  pc |-> IF op = "handle_signals" THEN "check_pending_signals"
                         ELSE IF op = "sys_yield" THEN "suspend"
                         ELSE "process_inner"]]
    /\ UNCHANGED notGuard

GdKill(u, signum) ==
    /\ GdAt("user")
    /\ ~gd.tk[gd.cur].killed
    /\ gd' = Goto(sys_kill_step(gd, gd.cur, u, signum), gd.cur, "user")
    /\ UNCHANGED notGuard

\* the running thread executes its next statement
GdStep ==
    /\ GdRunning
    /\ gd.th[gd.cur].op # "user"
    /\ \E t \in {gd.cur} : \E c \in {gd.th[t]} :
         gd' = IF c.pc = "return" THEN [gd EXCEPT !.th[t] = [op |-> "user", pc |-> "user", rem |-> 0]]
               ELSE IF c.pc \in {"process_inner", "drop"}
               THEN syscall_prologue(gd, t, IF c.op \in {"spin_unlock", "blocking_unlock"}
                                            THEN "unlock" ELSE "exclusive_access")
               ELSE IF c.op = "sys_read" THEN Pipe_read_step(gd, t)
               ELSE IF c.op = "sys_write" THEN Pipe_write_step(gd, t)
               ELSE IF c.op = "spin_lock" THEN MutexSpin_lock_step(gd, t)
               ELSE IF c.op = "spin_unlock" THEN MutexSpin_unlock_step(gd, t)
               ELSE IF c.op = "blocking_lock" THEN MutexBlocking_lock_step(gd, t)
               ELSE IF c.op = "blocking_unlock" THEN MutexBlocking_unlock_step(gd, t)
               ELSE IF c.op = "handle_signals" THEN handle_signals_step(gd, t)
               ELSE GdSuspend(gd, t, "sys_yield", "return")
    /\ UNCHANGED notGuard

GdDispatch ==
    /\ ~gd.conflict
    /\ gd.cur = 0
    /\ gd.rq # <<>>
    /\ gd' = GdRunTasks(gd)
    /\ UNCHANGED notGuard

NextGuard ==
    \/ \E op \in GuardCalls, len \in GuardLens \cup {0} : GdCall(op, len)
    \/ \E u \in GThreads, signum \in GuardKills : GdKill(u, signum)
    \/ GdStep
    \/ GdDispatch

----------------------------------------------------------------------------
(* SpecBitmap: one Bitmap of two blocks on its own.  alloc and dealloc of   *)
(* allocated bits are called in any order, with at most two clear bits      *)
(* below the highest set bit at a time; op and bit are the last call and    *)
(* the bit it returned (alloc) or was given (dealloc).                      *)

BmBlocks == {1, 2}

BmBits == 0..(Cardinality(BmBlocks) * BLOCK_BITS - 1)

\* the clear bits of the bitmap
ClearBits(bm) == {b \in BmBits : ~BitmapTest(bm, b)}

\* the clear bits below the highest set bit
Holes(bm) == {b \in ClearBits(bm) : \E c \in BmBits : c > b /\ BitmapTest(bm, c)}

BitmapInit ==
    bmp = [bm |-> EmptyBitmap(Cardinality(BmBlocks)), op |-> "new", bit |-> NoneBit]

BmAlloc ==
    /\ \E r \in {BitmapAlloc(bmp.bm)} :
          bmp' = [bm |-> r.bm, op |-> "alloc", bit |-> r.bit]
    /\ UNCHANGED notBitmap

\* dealloc(bit) of an allocated bit (dealloc asserts that the bit is set)
BmDealloc(bit) ==
    /\ BitmapTest(bmp.bm, bit)
    /\ \E bm \in {BitmapDealloc(bmp.bm, bit)} :
          /\ Cardinality(Holes(bm)) <= Cardinality(BmBlocks)
          /\ bmp' = [bm |-> bm, op |-> "dealloc", bit |-> bit]
    /\ UNCHANGED notBitmap

NextBitmap ==
    \/ BmAlloc
    \/ \E bit \in BmBits : BmDealloc(bit)

----------------------------------------------------------------------------
(* SpecPipeRefs: the references to the write end of one pipe.  Process 1,   *)
(* which has closed its standard files, makes the pipe (Init) and forks     *)
(* process 2; both dup and close the fds 0, 1 and 2, read from              *)
(* the read end and write to the write end.  An Arc<Pipe> of the write end  *)
(* is held by every fd-table slot that refers to it and by a sys_write call *)
(* on it that has not returned.  pw is the record                           *)
(*   tab      process -> fd table (<<>> for process 2 before the fork)      *)
(*   ring     the ring buffer                                               *)
(*   rd, wr   the read and the write call under way: [pc, rem], rem the     *)
(*            bytes left in the user buffer                                 *)
(*   last     the call that returned last: op, eof (a read that returned    *)
(*            because all_write_ends_closed() held), and the slots and the  *)
(*            write that referred to the write end at that moment           *)

PrProcs == {1, 2}
PrFds == {0, 1, 2}
PrLens == {RING_BUFFER_SIZE}

\* the slots of all fd tables that refer to the write end
WriteEndSlots(tab) ==
    {s \in PrProcs \X PrFds :
        s[2] < Len(tab[s[1]]) /\ tab[s[1]][s[2] + 1] = "PipeWrite"}

\* a faulty upgrade, which fails although a sys_write call holds the write end
Weak_upgrade_SlotsOnly(tab, write) == WriteEndSlots(tab) # {}

\* write_end.upgrade().is_some(): the strong count of the write end's Arc is
\* not zero
Weak_upgrade(tab, write) ==
    Cardinality(WriteEndSlots(tab)) + (IF write.pc = "suspended" THEN 1 ELSE 0) > 0

\* fork's copy of the fd table: every Some(file) is cloned
fork_fd_table(t) == [i \in 1..Len(t) |-> t[i]]

NoPipeCall == [pc |-> "idle", rem |-> 0]
NoPipeHistory == [accepted |-> <<>>, delivered |-> <<>>, overrun |-> FALSE, residual |-> 0]

PipeRefsInit ==
    pw = [tab |-> <<sys_pipe(<<"None", "None", "None">>).table, <<>>>>,
          ring |-> PipeRingBuffer_new, rd |-> NoPipeCall, wr |-> NoPipeCall,
          last |-> [op |-> "sys_pipe", eof |-> FALSE, slots |-> {}, writing |-> FALSE]]

PrReturn(op, eof) ==
    [op |-> op, eof |-> eof,
     slots |-> IF eof THEN WriteEndSlots(pw.tab) ELSE {},
     writing |-> eof /\ pw.wr.pc = "suspended"]

PrFork ==
    /\ pw.tab[2] = <<>>
    /\ pw' = [pw EXCEPT !.tab[2] = fork_fd_table(pw.tab[1]),
                        !.last = PrReturn("fork", FALSE)]
    /\ UNCHANGED notPipeRefs

PrDup(p, fd) ==
    /\ pw.tab[p] # <<>>
    /\ \E r \in {sys_dup(pw.tab[p], fd)} :
          /\ r.ret >= 0
          /\ r.ret \in PrFds
          /\ pw' = [pw EXCEPT !.tab[p] = r.table,
                              !.last = PrReturn("sys_dup", FALSE)]
    /\ UNCHANGED notPipeRefs

PrClose(p, fd) ==
    /\ pw.tab[p] # <<>>
    /\ \E r \in {sys_close(pw.tab[p], fd)} :
          /\ r.ret = 0
          /\ pw' = [pw EXCEPT !.tab[p] = r.table,
                              !.last = PrReturn("sys_close", FALSE)]
    /\ UNCHANGED notPipeRefs

\* Pipe::read from the call or from the return of suspend_current_and_run_next
PrReadStep(rem) ==
    \E c \in {Pipe_read([p |-> [pw.ring EXCEPT !.write_end = Weak_upgrade(pw.tab, pw.wr)],
                         h |-> NoPipeHistory, rem |-> rem, size |-> 0, pc |-> "run"])} :
       pw' = [pw EXCEPT
                 !.ring = [c.p EXCEPT !.write_end = TRUE],
                 !.rd = IF c.pc = "return" THEN NoPipeCall
                        ELSE [pc |-> "suspended", rem |-> c.rem],
                 !.last = IF c.pc = "return"
                          THEN PrReturn("sys_read", available_read(c.p) = 0)
                          ELSE @]

\* sys_read(fd, buf, len) by process p on a slot that holds the read end
PrReadCall(p, fd, len) ==
    /\ pw.rd.pc = "idle"
    /\ fd < Len(pw.tab[p])
    /\ pw.tab[p][fd + 1] = "PipeRead"
    /\ PrReadStep(len)
    /\ UNCHANGED notPipeRefs

PrReadResume ==
    /\ pw.rd.pc = "suspended"
    /\ PrReadStep(pw.rd.rem)
    /\ UNCHANGED notPipeRefs

PrWriteStep(rem) ==
    \E c \in {Pipe_write([p |-> pw.ring, h |-> NoPipeHistory, rem |-> rem, size |-> 0,
                          pc |-> "run"])} :
       pw' = [pw EXCEPT
                 !.ring = [c.p EXCEPT !.arr = pw.ring.arr],
                 !.wr = IF c.pc = "return" THEN NoPipeCall
                        ELSE [pc |-> "suspended", rem |-> c.rem],
                 !.last = IF c.pc = "return" THEN PrReturn("sys_write", FALSE) ELSE @]

\* sys_write(fd, buf, len) by process p on a slot that holds the write end
PrWriteCall(p, fd, len) ==
    /\ pw.wr.pc = "idle"
    /\ fd < Len(pw.tab[p])
    /\ pw.tab[p][fd + 1] = "PipeWrite"
    /\ PrWriteStep(len)
    /\ UNCHANGED notPipeRefs

PrWriteResume ==
    /\ pw.wr.pc = "suspended"
    /\ PrWriteStep(pw.wr.rem)
    /\ UNCHANGED notPipeRefs

NextPipeRefs ==
    \/ PrFork
    \/ \E p \in PrProcs, fd \in PrFds : PrDup(p, fd)
    \/ \E p \in PrProcs, fd \in PrFds : PrClose(p, fd)
    \/ \E p \in PrProcs, fd \in PrFds, len \in PrLens : PrReadCall(p, fd, len)
    \/ PrReadResume
    \/ \E p \in PrProcs, fd \in PrFds, len \in PrLens : PrWriteCall(p, fd, len)
    \/ PrWriteResume

----------------------------------------------------------------------------
(* os/src/timer.rs: the timer heap.  TIMERS is a BinaryHeap<TimerCondVar>,  *)
(* a max-heap under TimerCondVar's Ord: peek and pop give an entry that no  *)
(* other entry exceeds (any of them when several compare equal).  An entry  *)
(* is [id, expire_ms, task]; id tells entries of one task apart.  usize and *)
(* isize are TimeBits wide.  tm is the record                               *)
(*   timers   the set of entries in the heap                                *)
(*   rq       the ready queue                                               *)
(*   n        the number of add_timer calls so far                          *)
(*   last     the last call: op, now (check_timer's current_ms), before     *)
(*            (the heap before it), rq0 (the ready queue before it), woken  *)
(*            (the entries check_timer popped, in order)                    *)

TimeBits == 3
MaxTimers == 3
TimerTasks == {1, 2}
USize == 0..(2^TimeBits - 1)

\* x as isize, for a usize x
as_isize(x) == IF x < 2^(TimeBits - 1) THEN x ELSE x - 2^TimeBits

\* a faulty key, which orders the entries by expire_ms itself
TimerKey_Forward(e) == e.expire_ms

\* -(self.expire_ms as isize), the key partial_cmp compares (wrapping: the
\* negation of isize::MIN is isize::MIN where overflow is not checked)
TimerKey(e) ==
    IF as_isize(e.expire_ms) = -(2^(TimeBits - 1)) THEN as_isize(e.expire_ms)
    ELSE -as_isize(e.expire_ms)

\* the entries BinaryHeap::peek may return: those no other entry exceeds
Peeks(timers) == {e \in timers : \A f \in timers : TimerKey(f) <= TimerKey(e)}

add_timer(timers, id, expire_ms, tcb) ==
    timers \cup {[id |-> id, expire_ms |-> expire_ms, task |-> tcb]}

\* remove_timer: the heap is rebuilt without the entries of the task
remove_timer(timers, tcb) == {e \in timers : e.task # tcb}

\* check_timer's loop from the state c = [timers, rq, woken]: the set of
\* states it can end in
RECURSIVE check_timer(_, _)
check_timer(c, current_ms) ==
    IF \A timer \in Peeks(c.timers) : timer.expire_ms > current_ms THEN {c}
    ELSE UNION {check_timer([timers |-> c.timers \ {timer},
                             rq |-> TaskManager_add(c.rq, timer.task),
                             woken |-> Append(c.woken, timer)], current_ms) :
                   timer \in {e \in Peeks(c.timers) : e.expire_ms <= current_ms}}

(* SpecTimer *)
NoTimerCall == [op |-> "none", now |-> 0, before |-> {}, rq0 |-> <<>>, woken |-> <<>>]

TimerInit == tm = [timers |-> {}, rq |-> <<>>, n |-> 0, last |-> NoTimerCall]

TmAdd(expire_ms, tcb) ==
    /\ tm.last.op # "panic"
    /\ tm.n < MaxTimers
    /\ tm' = [tm EXCEPT !.timers = add_timer(@, tm.n, expire_ms, tcb), !.n = @ + 1,
                        !.last = [NoTimerCall EXCEPT !.op = "add_timer"]]
    /\ UNCHANGED notTimer

TmRemove(tcb) ==
    /\ tm.last.op # "panic"
    /\ \E e \in tm.timers : e.task = tcb
    /\ tm' = [tm EXCEPT !.timers = remove_timer(@, tcb),
                        !.last = [NoTimerCall EXCEPT !.op = "remove_timer"]]
    /\ UNCHANGED notTimer

\* the timer interrupt at time current_ms
TmCheck(current_ms) ==
    /\ tm.last.op # "panic"
    /\ tm.timers # {}
    /\ \E c \in check_timer([timers |-> tm.timers, rq |-> tm.rq, woken |-> <<>>], current_ms) :
          tm' = [tm EXCEPT !.timers = c.timers, !.rq = c.rq,
                           !.last = [op |-> "check_timer", now |-> current_ms,
                                     before |-> tm.timers, rq0 |-> tm.rq,
                                     woken |-> c.woken]]
    /\ UNCHANGED notTimer

\* a build with overflow checks panics when the heap compares an entry whose
\* expire_ms as isize is isize::MIN with another one
TmPanic ==
    /\ tm.last.op # "panic"
    /\ Cardinality(tm.timers) > 1
    /\ \E e \in tm.timers : as_isize(e.expire_ms) = -(2^(TimeBits - 1))
    /\ tm' = [tm EXCEPT !.last = [NoTimerCall EXCEPT !.op = "panic"]]
    /\ UNCHANGED notTimer

NextTimer ==
    \/ \E expire_ms \in USize, tcb \in TimerTasks : TmAdd(expire_ms, tcb)
    \/ \E tcb \in TimerTasks : TmRemove(tcb)
    \/ \E current_ms \in USize : TmCheck(current_ms)
    \/ TmPanic

----------------------------------------------------------------------------
(* SpecLock: three threads of one process use a MutexSpin ("spin") and a    *)
(* MutexBlocking ("blocking") through sys_mutex_lock and sys_mutex_unlock,  *)
(* statement by statement as in SpecGuard, and yield.  A thread calls       *)
(* unlock only on a mutex it holds.  lk has the fields cur, rq, th, held,   *)
(* spin, bm, at_call and conflict of SpecGuard's record and                 *)
(*   own      the pairs <<mutex, thread>> for which lock() has returned to  *)
(*            the thread and the thread's unlock() has not run since        *)

LThreads == {1, 2, 3}
LockCalls == {"spin_lock", "spin_unlock", "blocking_lock", "blocking_unlock", "sys_yield"}

MutexOf(op) == IF op \in {"spin_lock", "spin_unlock"} THEN "spin" ELSE "blocking"

LockInit ==
    lk = [cur |-> 0, rq |-> [i \in LThreads |-> i],
          th |-> [t \in LThreads |-> [op |-> "user", pc |-> "user", rem |-> 0]],
          held |-> {}, spin |-> FALSE, bm |-> MutexBlocking_new,
          at_call |-> NoSuspendCall, conflict |-> FALSE, own |-> {}]

LkRunning == ~lk.conflict /\ lk.cur # 0

\* the running thread, in user mode, makes a system call: sys_mutex_lock and
\* sys_mutex_unlock take process_inner, clone the mutex and drop process_inner,
\* which leaves them in front of mutex.lock() or mutex.unlock()
LkCall(op) ==
    /\ LkRunning
    /\ lk.th[lk.cur].op = "user"
    /\ op \in {"spin_unlock", "blocking_unlock"} => <<MutexOf(op), lk.cur>> \in lk.own
    /\ \E g \in {syscall_prologue(Goto(lk, lk.cur, "process_inner"), lk.cur, "drop")} :
          lk' = [syscall_prologue(g, lk.cur, "drop") EXCEPT
                    !.th[lk.cur] = [op |-> op, rem |-> 0,
                                    pc |-> IF op = "sys_yield" THEN "suspend"
                                           ELSE IF op \in {"spin_unlock", "blocking_unlock"}
                                           THEN "unlock" ELSE "exclusive_access"]]
    /\ UNCHANGED notLock

\* the running thread executes its next statement in the kernel; own gains
\* the mutex when the statement is the last of lock() and loses it when the
\* statement is unlock()
LkStep ==
    /\ LkRunning
    /\ lk.th[lk.cur].op # "user"
    /\ \E t \in {lk.cur} : \E c \in {lk.th[t]} :
       \E g \in {IF c.pc = "return" THEN [lk EXCEPT !.th[t] = [op |-> "user", pc |-> "user", rem |-> 0]]
                 ELSE IF c.op = "spin_lock" THEN MutexSpin_lock_step(lk, t)
                 ELSE IF c.op = "spin_unlock" THEN MutexSpin_unlock_step(lk, t)
                 ELSE IF c.op = "blocking_lock" THEN MutexBlocking_lock_step(lk, t)
                 ELSE IF c.op = "blocking_unlock" THEN MutexBlocking_unlock_step(lk, t)
                 ELSE GdSuspend(lk, t, "sys_yield", "return")} :
         lk' = [g EXCEPT !.own =
                   IF c.pc = "unlock" THEN @ \ {<<MutexOf(c.op), t>>}
                   ELSE IF c.pc = "locked" /\ g.th[t].pc = "return" THEN @ \cup {<<MutexOf(c.op), t>>}
                   ELSE @]
    /\ UNCHANGED notLock

\* run_tasks dispatches the next thread; a thread that comes back from
\* block_current_and_run_next returns from MutexBlocking::lock
LkDispatch ==
    /\ ~lk.conflict
    /\ lk.cur = 0
    /\ lk.rq # <<>>
    /\ \E g \in {GdRunTasks(lk)} :
         lk' = [g EXCEPT !.own = IF lk.th[g.cur].op = "blocking_lock"
                                 THEN @ \cup {<<"blocking", g.cur>>} ELSE @]
    /\ UNCHANGED notLock

NextLock ==
    \/ \E op \in LockCalls : LkCall(op)
    \/ LkStep
    \/ LkDispatch

\* the MutexBlocking alone, with no lock() by the thread that holds it
NextBlocking ==
    \/ \E op \in {"blocking_lock", "blocking_unlock", "sys_yield"} :
          /\ op = "blocking_lock" => <<"blocking", lk.cur>> \notin lk.own
          /\ LkCall(op)
    \/ LkStep
    \/ LkDispatch

----------------------------------------------------------------------------
(* SpecAllocData: alloc_data on the file system that create has made, for   *)
(* every device size, until the data bitmap has no clear bit left.  da is   *)
(*   dbm      the blocks of the data bitmap (all zero after create)         *)
(*   id       the block id the last alloc_data returned, -1 before the      *)
(*            first call                                                    *)
(*   full     alloc_data found no clear bit (the unwrap panics)             *)

\* alloc_data on the file system efs with the data bitmap blocks dbm
EasyFileSystem_alloc_data(efs, dbm) ==
    With(BitmapAlloc(dbm), LAMBDA r :
        IF r.bit = NoneBit THEN [ok |-> FALSE, id |-> -1, dbm |-> dbm]
        ELSE [ok |-> TRUE, id |-> efs.data_area_start_block + r.bit, dbm |-> r.bm])

DataAllocInit == da = [dbm |-> <<>>, id |-> -1, full |-> FALSE]

MkAllocData ==
    /\ mkfs.pc \in {"created", "opened"}
    /\ mkfs.ok
    /\ ~da.full
    /\ \E r \in {EasyFileSystem_alloc_data(mkfs.efs,
                     IF da.id = -1 THEN EmptyBitmap(mkfs.efs.data_bitmap.blocks)
                     ELSE da.dbm)} :
          da' = IF r.ok THEN [da EXCEPT !.dbm = r.dbm, !.id = r.id]
                ELSE [da EXCEPT !.full = TRUE]
    /\ UNCHANGED notDataAlloc

NextAllocData ==
    \/ \E device_blocks \in 0..MaxTotalBlocks, inode_bitmap_blocks \in 0..MaxInodeBitmapBlocks :
         MkCreate(device_blocks, inode_bitmap_blocks)
    \/ MkOpen
    \/ MkAllocData

----------------------------------------------------------------------------
vars == <<fsVars, pipeVars, procVars, schedVars, sigVars, diskVars, fdVars, allocVars, threadVars, mkfsVars, guardVars, bitmapVars, pipeRefsVars, timerVars, lockVars, dataAllocVars>>

Init == FsInit /\ PipeInit /\ ProcInit /\ SchedInit /\ SigInit /\ DiskInit /\ FdInit /\ AllocInit /\ ThreadInit
        /\ MkfsInit /\ GuardInit /\ BitmapInit
        /\ PipeRefsInit /\ TimerInit /\ LockInit /\ DataAllocInit

SpecRT == Init /\ [][NextRT]_vars
SpecFS == Init /\ [][NextFS]_vars
SpecPipe == Init /\ [][NextPipe]_vars
\* the ready queue is first-in first-out, so a suspended reader is dispatched again
SpecPipeFair == SpecPipe /\ WF_vars(PipeReadResume)
SpecProc == Init /\ [][NextProc]_vars
SpecSched == Init /\ [][NextSched]_vars
SpecMutex == Init /\ [][NextMutex]_vars
SpecSig == Init /\ [][NextSig]_vars
SpecDisk == Init /\ [][NextDisk]_vars
SpecFd == Init /\ [][NextFd]_vars
SpecRing == Init /\ [][NextRing]_vars
SpecAlloc == Init /\ [][NextAlloc]_vars
SpecThread == Init /\ [][NextThread]_vars
SpecMkfs == Init /\ [][NextMkfs]_vars
SpecGuard == Init /\ [][NextGuard]_vars
SpecPipeRefs == Init /\ [][NextPipeRefs]_vars
SpecWrite == Init /\ [][NextWrite]_vars
SpecBitmap == Init /\ [][NextBitmap]_vars

SpecTimer == Init /\ [][NextTimer]_vars
SpecLock == Init /\ [][NextLock]_vars
SpecAllocData == Init /\ [][NextAllocData]_vars
\* The running thread goes on executing in the kernel and the idle loop of
\* run_tasks fetches from the ready queue whenever it has the hart; a thread
\* that is in user mode again and again gives up the hart (sys_yield), and a
\* holder that is in user mode again and again calls unlock
SpecBlocking == Init /\ [][NextBlocking]_vars
                     /\ WF_vars(LkStep) /\ WF_vars(LkDispatch)
                     /\ SF_vars(LkCall("sys_yield")) /\ SF_vars(LkCall("blocking_unlock"))

----------------------------------------------------------------------------
(* Properties of the file system *)

\* C1: after clear and write_at(0, C), read_at(0, buf) with |buf| >= |C| returns
\* exactly the bytes of C (so |C| of them), and reading in fixed-size chunks,
\* advancing by each returned length until 0 is returned, concatenates to C.
C1_RoundTrip ==
    /\ rt.pc \in {"chunks", "done"} => rt.whole = rt.C
    /\ rt.pc = "done" => rt.acc = rt.C

\* a content that reaches the second indirect1 block under indirect2 has been
\* written and read back whole and in chunks
C1_Witness ==
    /\ rt.pc = "done"
    /\ Len(rt.C) > (INDIRECT1_BOUND + INODE_INDIRECT1_COUNT) * BLOCK_SIZE
    /\ rt.whole = rt.C
    /\ rt.acc = rt.C

\* the block ids a disk inode refers to: its non-zero fields, the data blocks
\* of its size and the index blocks that lead to them
DataBitSet(id) == id >= DataAreaStart /\ BitmapTest(data_bitmap, id - DataAreaStart)

\* C2: after any sequence of create, write_at and clear on the root directory
\* and its files, every block id a disk inode refers to (data block, indirect1
\* or indirect2 index block) has its data-bitmap bit set, and every inode number
\* in a root directory entry has its inode-bitmap bit set.
C2_BitmapAgreement ==
    /\ \A id \in DOMAIN disk_inodes :
          \A b \in ReferencedBlocks(disk_inodes[id], blocks) : DataBitSet(b)
    /\ \A i \in 0..(FileCount(FsState) - 1) :
          BitmapTest(inode_bitmap, DirEntryInodeNumber(DirEntryAt(FsState, i)))

\* a file that was cleared and has grown again into the indirect2 region,
\* beside a second file
C2_Witness ==
    /\ fsLast.op = "write_at"
    /\ FileCount(FsState) = 2
    /\ \E id \in DOMAIN disk_inodes :
          /\ id # ROOT_INODE
          /\ disk_inodes[id].indirect2 # 0
          /\ data_blocks(disk_inodes[id].size) > INDIRECT1_BOUND

\* C6: open_file with neither CREATE nor TRUNCATE returns none only if the file
\* is absent; an existing file is returned as a handle, its content unchanged.
C6_OpenExisting ==
    (fsLast.op = "open" /\ ~Contains(fsLast.flags, CREATE)
                        /\ ~Contains(fsLast.flags, TRUNCATE))
    => /\ fsLast.ret = NoneInode => fsLast.existed = NoneInode
       /\ fsLast.existed # NoneInode =>
             /\ fsLast.ret = fsLast.existed
             /\ FileContent(FsState, fsLast.existed) = fsLast.before

\* C11: every block handed out by alloc_data reads as BLOCK_SIZE zero bytes
\* when it is allocated, in any sequence of create, write_at and clear, and
\* the bytes of a gap left by write_at with offset > size read as zero.
C11_AllocZero ==
    /\ fsLast.zeroed
    /\ fsLast.op = "write_at" =>
          \A i \in (Len(fsLast.before) + 1)..fsLast.offset :
              FileContent(FsState, fsLast.existed)[i] = 0

\* a write beyond the end of the file that was handed a block freed earlier
C11_Witness ==
    /\ fsLast.op = "write_at"
    /\ fsLast.offset > Len(fsLast.before)
    /\ fsLast.reused

\* C12: growing an empty disk inode to a size s within capacity consumes
\* exactly total_blocks(s) block ids; clear_size on an inode of size s returns
\* exactly total_blocks(s) ids, which are exactly the ids increase_size stored
\* (data blocks and indirect1/indirect2 index blocks), each once, and leaves
\* size, indirect1 and indirect2 at 0.
C12_Capacity ==
    /\ dk.pc = "grown" => dk.used = total_blocks(dk.inode.size)
    /\ dk.pc = "cleared" =>
          /\ Len(dk.v) = total_blocks(dk.size0)
          /\ SeqRange(dk.v) = SeqRange(SubSeq(dk.pool, 1, dk.used))
          /\ Cardinality(SeqRange(dk.v)) = Len(dk.v)
          /\ dk.inode.size = 0
          /\ dk.inode.indirect1 = 0
          /\ dk.inode.indirect2 = 0

\* an inode grown to full capacity in several calls, over the index blocks an
\* earlier round left behind, has been cleared
C12_Witness ==
    /\ dk.pc = "cleared"
    /\ dk.size0 = Capacity
    /\ dk.calls = "many"
    /\ dk.again

\* C25: for every size s and every new size n >= s within capacity,
\* increase_size consumes exactly blocks_num_needed(n) = total_blocks(n) -
\* total_blocks(s) of the ids it is given, also when the growth starts on or
\* crosses the direct bound, the indirect1 bound or the end of an indirect1
\* block of the indirect2 region; the ids stored before the call stay where
\* they were.
C25_ExactIds ==
    dk.pc = "grown" =>
        /\ dk.grow.used = dk.grow.needed
        /\ dk.grow.needed = total_blocks(dk.inode.size) - total_blocks(dk.grow.from)
        /\ dk.grow.kept

\* a growth that started at the end of the first indirect1 block of the
\* indirect2 region, on an inode grown in several calls, reached capacity
C25_Witness ==
    /\ dk.pc = "grown"
    /\ dk.calls = "many"
    /\ data_blocks(dk.grow.from) = INDIRECT1_BOUND + INODE_INDIRECT1_COUNT
    /\ dk.inode.size = Capacity
    /\ dk.grow.used > 0

\* C27: after Inode::write_at(offset, buf) on a file of size s the file's
\* size is max(s, offset + len(buf)), the call returns len(buf), the bytes in
\* [offset, offset + len(buf)) equal buf, and every byte below s outside that
\* range is unchanged.
C27_WriteAt ==
    fsLast.op = "write_at" =>
        LET s == Len(fsLast.before)
            end == fsLast.offset + Len(fsLast.buf)
            now == FileContent(FsState, fsLast.existed)
        IN /\ disk_inodes[fsLast.existed].size = MaxOf(s, end)
           /\ Len(now) = MaxOf(s, end)
           /\ fsLast.ret = Len(fsLast.buf)
           /\ \A i \in 1..Len(fsLast.buf) : now[fsLast.offset + i] = fsLast.buf[i]
           /\ \A i \in 1..s : (i <= fsLast.offset \/ i > end) => now[i] = fsLast.before[i]

\* a write inside a file that has an indirect1 block, across a block
\* boundary, which changed bytes and left bytes before and after it
C27_Witness ==
    /\ fsLast.op = "write_at"
    /\ fsLast.offset > 0
    /\ fsLast.offset + Len(fsLast.buf) < Len(fsLast.before)
    /\ Len(fsLast.buf) > BLOCK_SIZE
    /\ Len(fsLast.before) > DIRECT_BOUND * BLOCK_SIZE
    /\ \E i \in 1..Len(fsLast.buf) : fsLast.before[fsLast.offset + i] # fsLast.buf[i]

\* the last call was Inode::clear on an existing file, called directly or by
\* open_file with CREATE or TRUNCATE
Cleared ==
    /\ fsLast.existed # NoneInode
    /\ \/ fsLast.op = "clear"
       \/ /\ fsLast.op = "open"
          /\ Contains(fsLast.flags, CREATE) \/ Contains(fsLast.flags, TRUNCATE)

\* C13: after Inode::clear() on a file of any size the file's size is 0,
\* read_at returns 0 at every offset, and every block the inode referenced
\* before the call (data and index blocks) has its data-bitmap bit clear, so
\* that no block stays allocated without being referenced by some inode.
C13_ClearFrees ==
    Cleared =>
       /\ disk_inodes[fsLast.existed].size = 0
       /\ \A offset \in 0..(MaxFileSize + 1), len \in 1..MaxWriteLen :
             Len(Inode_read_at(FsState, fsLast.existed, offset, len)) = 0
       /\ \A b \in fsLast.refs : ~DataBitSet(b)
       /\ \A b \in AllocatedData(FsState) :
             \E id \in DOMAIN disk_inodes :
                b \in ReferencedBlocks(disk_inodes[id], blocks)

\* a file that had grown into the indirect2 region has been cleared
C13_Witness ==
    /\ fsLast.op = "clear"
    /\ Len(fsLast.before) > INDIRECT1_BOUND * BLOCK_SIZE
    /\ Cardinality(fsLast.refs) = total_blocks(Len(fsLast.before))

\* C14: Inode::create(name) returns none when a directory entry with that name
\* exists, and then the root directory's size and entries, the inode bitmap
\* and the data bitmap are unchanged; when the name is new it allocates one
\* inode, the root directory grows by exactly DIR_ENTRY_SIZE bytes and the new
\* entry is the last one.
C14_Create ==
    fsLast.op = "create" =>
       \A S \in SeqRange(fsLast.dir) :
          IF \E i \in 1..FileCount(S) : DirEntryName(DirEntries(S)[i]) = fsLast.name
          THEN /\ fsLast.ret = NoneInode
               /\ disk_inodes[ROOT_INODE].size = S.inodes[ROOT_INODE].size
               /\ DirEntries(FsState) = DirEntries(S)
               /\ inode_bitmap = S.ibm
               /\ data_bitmap = S.dbm
          ELSE /\ fsLast.ret # NoneInode
               /\ fsLast.ret \notin AllocatedInodes(S)
               /\ AllocatedInodes(FsState) = AllocatedInodes(S) \cup {fsLast.ret}
               /\ disk_inodes[ROOT_INODE].size = S.inodes[ROOT_INODE].size + DIR_ENTRY_SIZE
               /\ DirEntries(FsState) =
                     Append(DirEntries(S), DirEntryBytes(fsLast.name, fsLast.ret))

\* create was called with the name of an existing file that holds data,
\* beside a second file
C14_Witness ==
    /\ fsLast.op = "create"
    /\ fsLast.existed # NoneInode
    /\ disk_inodes[fsLast.existed].size > 0
    /\ FileCount(FsState) = 2

\* C15: ls() on the root directory returns the names of all files whose
\* create returned an inode, each exactly once, in the order in which they
\* were created; writes to and clears of those files never change the result.
C15_LsOrder ==
    /\ ls(FsState) = fsLast.created
    /\ \A i, j \in 1..Len(ls(FsState)) : ls(FsState)[i] = ls(FsState)[j] => i = j

\* two files created against the order of their names, one of them written
\* and then cleared
C15_Witness ==
    /\ fsLast.op = "clear"
    /\ Len(fsLast.before) > 0
    /\ fsLast.created = <<2, 1>>

\* the lowest-numbered empty slot of table t, or the slot behind its last one
LowestEmpty(t) ==
    IF \E i \in 1..Len(t) : t[i] = "None"
    THEN Least({i \in 1..Len(t) : t[i] = "None"}) - 1
    ELSE Len(t)

\* table t with file f in slot fd, one slot longer if fd is behind its last one
Installed(t, fd, f) ==
    [i \in 1..(IF fd < Len(t) THEN Len(t) ELSE fd + 1) |->
        IF i = fd + 1 THEN f ELSE t[i]]

\* sys_open, sys_dup and sys_pipe install each new file in the lowest-numbered
\* empty slot and extend the table by one slot only when no slot is empty
LowestSlot ==
    /\ fdLast.op = "open" /\ fdLast.ret # -1 =>
          /\ fdLast.ret = LowestEmpty(fdLast.before)
          /\ fd_table = Installed(fdLast.before, fdLast.ret, "File")
    /\ fdLast.op = "dup" /\ fdLast.ret # -1 =>
          /\ fdLast.ret = LowestEmpty(fdLast.before)
          /\ fd_table = Installed(fdLast.before, fdLast.ret, fdLast.before[fdLast.fd + 1])
    /\ fdLast.op = "pipe" =>
          /\ fdLast.ret = LowestEmpty(fdLast.before)
          /\ fdLast.ret2 = LowestEmpty(Installed(fdLast.before, fdLast.ret, "PipeRead"))
          /\ fd_table = Installed(Installed(fdLast.before, fdLast.ret, "PipeRead"),
                                  fdLast.ret2, "PipeWrite")

\* the last call was a dup of an open fd, right after a close of slot fd that
\* returned 0
DupAfterClose(fd) == fdLast.op = "dup" /\ fdLast.ret # -1 /\ fdLast.closed = fd

\* C16 as stated: new files go to the lowest-numbered empty slot; hence dup
\* right after close(0) returns 0 and dup right after close(1) returns 1.
C16_LowestFd ==
    /\ LowestSlot
    /\ DupAfterClose(0) => fdLast.ret = 0
    /\ DupAfterClose(1) => fdLast.ret = 1

\* C16, amended: new files go to the lowest-numbered empty slot; hence dup
\* right after close(0) returns 0, and dup right after close(1) returns 1 if
\* slot 0 holds a file.
C16_LowestFdAmended ==
    /\ LowestSlot
    /\ DupAfterClose(0) => fdLast.ret = 0
    /\ DupAfterClose(1) /\ fdLast.before[1] # "None" => fdLast.ret = 1

\* the shell's output redirection: a file opened into slot 3, close(1), and a
\* dup of slot 3 that returned 1
C16_Witness ==
    /\ DupAfterClose(1)
    /\ fdLast.fd = Len(fdLast.before) - 1
    /\ fdLast.before[fdLast.fd + 1] = "File"
    /\ fdLast.ret = 1

----------------------------------------------------------------------------
(* Properties of the pipe *)

IsPrefix(a, b) == Len(a) <= Len(b) /\ \A i \in 1..Len(a) : a[i] = b[i]

\* the bytes accepted from the writer and not yet delivered to the reader
Unread == SubSeq(ph.accepted, Len(ph.delivered) + 1, Len(ph.accepted))

\* C3: for any interleaving of one writer and one reader at their suspension
\* points, the bytes delivered to the reader are a prefix of the bytes accepted
\* from the writer (none lost, duplicated or reordered), and no byte is stored
\* into the ring buffer while it holds RING_BUFFER_SIZE unread bytes.
C3_PipeFifo ==
    /\ IsPrefix(ph.delivered, ph.accepted)
    /\ ~ph.overrun

\* the writer is suspended on a full ring buffer that has wrapped around, after
\* the reader has taken bytes
C3_Witness ==
    /\ pipe.status = "Full"
    /\ wr.pc = "suspended"
    /\ pipe.head # 0
    /\ Len(ph.delivered) > 0
    /\ Len(ph.accepted) > RING_BUFFER_SIZE

\* what a read that runs now with rem bytes of user buffer left and size bytes
\* already read does, once the write end is dropped: it returns, with the
\* unread bytes up to rem added
ReadDrains(rem, size) ==
    \E c \in {Pipe_read([p |-> pipe, h |-> ph, rem |-> rem, size |-> size, pc |-> "run"])} :
       /\ c.pc = "return"
       /\ c.size = size + MinOf(rem, Len(Unread))
       /\ c.h.delivered = ph.delivered \o SubSeq(Unread, 1, MinOf(rem, Len(Unread)))

C4_ReadsReturn ==
    ~pipe.write_end =>
        IF rd.pc = "suspended" THEN ReadDrains(rd.rem, rd.size)
        ELSE \A len \in PipeReadLens : ReadDrains(len, 0)

\* C4: once the write end is dropped, a reader suspended in read eventually
\* returns, and a read (resumed or called afterwards) returns the bytes still
\* buffered up to its buffer length; on the drained pipe that is 0 bytes, and
\* the read returns instead of suspending.
C4_Drain ==
    /\ []C4_ReadsReturn
    /\ (~pipe.write_end /\ rd.pc = "suspended") ~> (rd.pc = "idle")

\* after the write end was dropped a read returned residual bytes and a later
\* read on the drained pipe returned 0
C4_Witness ==
    /\ ~pipe.write_end
    /\ rd.pc = "idle"
    /\ rd.closed
    /\ rd.ret = 0
    /\ ph.residual >= 1
    /\ Len(ph.accepted) > 0
    /\ ph.delivered = ph.accepted

\* C17: in every state of a ring buffer reachable through read_byte (called
\* only when available_read > 0) and write_byte (called only when
\* available_write > 0), available_read() + available_write() is the buffer
\* size, available_read() = 0 exactly when status is Empty, available_write()
\* = 0 exactly when status is Full, and head = tail exactly when status is
\* Empty or Full.
C17_RingInvariant ==
    /\ available_read(pipe) + available_write(pipe) = RING_BUFFER_SIZE
    /\ available_read(pipe) = 0 <=> pipe.status = "Empty"
    /\ available_write(pipe) = 0 <=> pipe.status = "Full"
    /\ pipe.head = pipe.tail <=> pipe.status \in {"Empty", "Full"}

\* the buffer has been filled after head and tail wrapped around
C17_Witness ==
    /\ pipe.status = "Full"
    /\ pipe.head = pipe.tail
    /\ pipe.head # 0
    /\ \A i \in DOMAIN pipe.arr : pipe.arr[i] # 0

----------------------------------------------------------------------------
(* Properties of processes *)

\* C5: sys_waitpid(pid, ptr) returns -1 when no child matches pid (any child
\* when pid = -1), -2 when a matching child exists but no matching child is a
\* zombie, and otherwise removes one matching zombie child, writes its exit
\* code through ptr and returns its pid; a further waitpid for the reaped child
\* returns -1.
C5_Waitpid ==
    procLast.op = "waitpid" =>
        LET before   == procLast.before
            matching == {i \in 1..Len(before) : WaitMatches(procLast.pid, before[i])}
            zombies  == {i \in matching : before[i].zombie}
        IN /\ matching = {} =>
                 procLast.ret = -1 /\ ~procLast.panicked /\ children = before
           /\ (matching # {} /\ zombies = {}) =>
                 procLast.ret = -2 /\ ~procLast.panicked /\ children = before
           /\ zombies # {} =>
                 /\ ~procLast.panicked
                 /\ \E i \in zombies :
                       /\ procLast.ret = before[i].pid
                       /\ children = RemoveAt(before, i)
                       /\ procLast.written = <<before[i].exit_code>>
                 /\ sys_waitpid(children, pid_allocator, procLast.ret).ret = -1

\* C18: in any sequence of RecycleAllocator alloc and dealloc calls in which
\* dealloc is only called on an id that is currently allocated, no call fails:
\* dealloc puts the id on the free list, and while the free list is non-empty
\* alloc returns the most recently freed id instead of bumping the counter.
C18_AllocatorNeverFails ==
    /\ al.ok
    /\ al.op = "dealloc" =>
          allocators[al.kind].recycled = Append(al.before.recycled, al.id)
    /\ al.op = "alloc" /\ al.before.recycled # <<>> =>
          /\ al.id = al.before.recycled[Len(al.before.recycled)]
          /\ allocators[al.kind].current = al.before.current

\* C19: exec is accepted exactly when the calling process has exactly one
\* thread: with one thread it passes the check and the new trap context has
\* a0 = argc and a1 = argv_base; with two or more threads it fails the
\* assertion.
C19_ExecOneThread ==
    thLast.op = "exec" =>
       /\ thLast.threads = 1 =>
             /\ thLast.check = "passed"
             /\ thLast.ok => /\ thLast.x10 = thLast.arg
                             /\ thLast.x11 = <<thLast.tid, thLast.arg + 1>>
       /\ thLast.threads >= 2 => thLast.check = "failed"

\* C20: when the main thread (tid 0) of P exits with code c, P is a zombie
\* with exit_code c, its pid is out of the pid -> pcb map, every former child
\* is in the init process's children with init as its parent, P's children
\* list is empty and the exiting thread is not on the ready queue; when
\* another thread exits, P's zombie flag, children and pid mapping are
\* unchanged.
C20_MainThreadExit ==
    thLast.op = "exit" =>
       \A p \in SeqRange(thLast.before) :
          IF thLast.tid = 0
          THEN /\ ~pr.panicked
               /\ pr.is_zombie
               /\ pr.exit_code = thLast.arg
               /\ PPid \notin pr.pid_to_pcb
               /\ \A c \in SeqRange(p.children) :
                     c \in SeqRange(pr.init_children) /\ pr.parent[c] = InitPid
               /\ pr.children = <<>>
               /\ thLast.caller \notin SeqRange(pr.ready_queue)
               /\ thLast.caller # pr.current
          ELSE /\ pr.is_zombie = p.is_zombie
               /\ pr.children = p.children
               /\ pr.pid_to_pcb = p.pid_to_pcb

----------------------------------------------------------------------------
(* Properties of the mutex and the scheduler *)

\* C7: the threads that block in MutexBlocking::lock return from it in the
\* order in which they called it; unlock with a non-empty wait queue leaves
\* locked = TRUE, removes exactly the oldest waiter and appends it to the ready
\* queue; unlock with an empty wait queue sets locked = FALSE.
C7_MutexFifo ==
    /\ IsPrefix(sh.granted, sh.blocked)
    /\ sh.last.op = "unlock" =>
          IF sh.last.m.wait_queue # <<>>
          THEN /\ mutex.locked
               /\ mutex.wait_queue = Tail(sh.last.m.wait_queue)
               /\ ready_queue = Append(sh.last.rq, Head(sh.last.m.wait_queue))
          ELSE /\ ~mutex.locked
               /\ mutex.wait_queue = <<>>
               /\ ready_queue = sh.last.rq

\* two threads blocked and were granted the mutex, and the last unlock found
\* the wait queue empty
C7_Witness ==
    /\ Len(sh.granted) >= 2
    /\ sh.granted[1] # sh.granted[2]
    /\ sh.last.op = "unlock"
    /\ sh.last.m.wait_queue = <<>>

\* C8: with suspend_current_and_run_next as the only way of scheduling, a
\* thread that yielded is dispatched again only after every thread that was in
\* the ready queue when it yielded, and before every thread enqueued after it.
C8_YieldOrder == ~sh.early /\ ~sh.overtaken

\* a thread that yielded behind a queued thread, and had a thread enqueued
\* after it that is still queued, runs again
C8_Witness ==
    /\ ~idle
    /\ sh.resumed.t = current
    /\ sh.resumed.ahead # {}
    /\ sh.resumed.later \cap SeqRange(ready_queue) # {}

\* C22: in every reachable state a thread is in the ready queue exactly when
\* its status is Ready, it is the processor's current thread exactly when its
\* status is Running, a Blocking thread is in neither place, at most one
\* thread is Running, and no thread is in the ready queue more than once.
C22_StatusAgrees ==
    /\ \A t \in Threads :
          /\ (t \in SeqRange(ready_queue)) <=> (task_status[t] = "Ready")
          /\ (current = t) <=> (task_status[t] = "Running")
          /\ task_status[t] = "Blocking" => (t \notin SeqRange(ready_queue) /\ current # t)
    /\ Cardinality({t \in Threads : task_status[t] = "Running"}) <= 1
    /\ \A i, j \in 1..Len(ready_queue) : ready_queue[i] = ready_queue[j] => i = j

----------------------------------------------------------------------------
(* Properties of signals *)

Called(s) == \E i \in 1..Len(sg.last.called) : sg.last.called[i] = s

\* a signal masked when check_pending_signals is called gets no handler and
\* stays pending
MaskedStaysPending ==
    \A s \in 0..MAX_SIG :
        (s \in sg.last.before.signals /\ s \in sg.last.before.signal_mask)
            => (~Called(s) /\ s \in task.signals)

\* C9: a signal masked when check_pending_signals is called gets no kernel or
\* user handler and stays pending, and a pending signal whose bit sys_procmask
\* removed from the mask is passed to its handler at the first check after
\* that.
C9_HandledAtFirstCheck ==
    sg.last.op = "check" =>
        /\ MaskedStaysPending
        /\ \A s \in sg.last.fresh : Called(s)

\* C29: a user signal handler is entered only when handling_sig is -1: while
\* a handler is in progress check_pending_signals dispatches no second user
\* handler, so that trap_ctx_backup is not overwritten before sys_sigreturn
\* restores it.
C29_NoNestedHandler ==
    (sg.last.op = "check" /\ sg.last.before.handling_sig # -1) =>
        /\ \A i \in 1..Len(sg.last.called) :
              \/ IsKernelSignal(sg.last.called[i])
              \/ sg.last.before.signal_actions[sg.last.called[i]].handler = 0
        /\ task.trap_ctx_backup = sg.last.before.trap_ctx_backup

\* C10: after a dispatched user handler calls sys_sigreturn, the trap context
\* is the one the thread had immediately before the dispatch, handling_sig is
\* -1 and the signal's pending bit is clear unless the signal was sent again.
C10_SigreturnRestores ==
    sg.last.op = "sigreturn" =>
        /\ task.trap_ctx = sg.last.entry.ctx
        /\ task.handling_sig = -1
        /\ sg.last.entry.again \/ sg.last.entry.sig \notin task.signals

----------------------------------------------------------------------------
(* Properties of EasyFileSystem::create *)

\* the five regions of the super block sb, as [start, blocks], the bitmaps and
\* the areas where efs places them
Regions(sb, efs) ==
    << [start |-> 0, blocks |-> 1],
       [start |-> efs.inode_bitmap.start_block_id, blocks |-> sb.inode_bitmap_blocks],
       [start |-> efs.inode_area_start_block, blocks |-> sb.inode_area_blocks],
       [start |-> efs.data_bitmap.start_block_id, blocks |-> sb.data_bitmap_blocks],
       [start |-> efs.data_area_start_block, blocks |-> sb.data_area_blocks] >>

\* each region starts where the one before it ends, and the last ends where the device ends
Contiguous(rs, device_blocks) ==
    /\ \A i \in 1..(Len(rs) - 1) : rs[i + 1].start = rs[i].start + rs[i].blocks
    /\ rs[Len(rs)].start + rs[Len(rs)].blocks = device_blocks
    /\ \A i \in 1..Len(rs) : rs[i].blocks >= 0

\* C21: for every (total_blocks, inode_bitmap_blocks) for which the regions
\* fit, the super block EasyFileSystem::create writes has counts with
\* 1 + inode_bitmap + inode_area + data_bitmap + data_area = total_blocks, the
\* five regions lie one after the other in that order without overlap, as
\* create and open both place them, and the data bitmap has at least as many
\* bits as the data area has blocks.
C21_Layout ==
    mkfs.super_block.magic = EFS_MAGIC =>
        LET sb == mkfs.super_block IN
        /\ sb.total_blocks = mkfs.total_blocks
        /\ sb.inode_bitmap_blocks = mkfs.inode_bitmap_blocks
        /\ 1 + sb.inode_bitmap_blocks + sb.inode_area_blocks
             + sb.data_bitmap_blocks + sb.data_area_blocks = sb.total_blocks
        /\ Contiguous(Regions(sb, mkfs.efs), sb.total_blocks)
        /\ sb.data_bitmap_blocks * BLOCK_BITS >= sb.data_area_blocks
        /\ Bitmap_maximum(mkfs.efs.data_bitmap) >= sb.data_area_blocks

\* a file system whose data bitmap takes more than one block and whose last
\* bitmap block is not full, made and opened again
C21_Witness ==
    /\ mkfs.pc = "opened"
    /\ mkfs.ok
    /\ mkfs.inode_bitmap_blocks = 2
    /\ mkfs.super_block.data_bitmap_blocks >= 2
    /\ mkfs.super_block.data_bitmap_blocks * BLOCK_BITS > mkfs.super_block.data_area_blocks

----------------------------------------------------------------------------
(* Properties of the exclusive-access guards *)

\* the number of guards on P's inner cell that are alive after the first i
\* events of a trace
Outstanding(trace, i) ==
    Cardinality({j \in 1..i : trace[j] = ACQ}) - Cardinality({j \in 1..i : trace[j] = REL})

\* C23: through fork, exec, exit_current_and_run_next (with the release of
\* the threads' user resources), thread_create and waittid, exclusive access
\* to the process's inner state is never requested while the caller already
\* holds it.
C23_NoSecondBorrow ==
    \A i \in 1..Len(thLast.inner) : Outstanding(thLast.inner, i) <= 1

----------------------------------------------------------------------------
(* Properties of the guards around the suspension points *)

\* C24: at every call of suspend_current_and_run_next or
\* block_current_and_run_next from Pipe::read, Pipe::write, MutexSpin::lock,
\* MutexBlocking::lock, handle_signals or sys_yield the caller holds no guard
\* on the ring buffer, the mutex state, its task inner state or its process
\* inner state; no thread that is off the hart holds one, and no request for
\* exclusive access meets a live guard.
C24_NoGuardAtSuspend ==
    /\ gd.at_call.held = {}
    /\ ~gd.conflict
    /\ \A h \in gd.held : h[2] = gd.cur
    /\ \A t \in GThreads : gd.th[t].pc \in {"suspend", "block"} => HeldBy(gd, t) = {}

\* a thread has just blocked in MutexBlocking::lock; the other one, which
\* holds the mutex, waits in the ready queue, suspended in Pipe::write on a
\* full ring buffer
C24_Witness ==
    /\ gd.at_call.from = "MutexBlocking::lock"
    /\ gd.cur = 0
    /\ gd.bm.wait_queue = <<gd.at_call.t>>
    /\ Len(gd.rq) = 1
    /\ gd.th[gd.rq[1]].op = "sys_write"
    /\ gd.th[gd.rq[1]].pc = "exclusive_access"
    /\ gd.ring.status = "Full"

----------------------------------------------------------------------------
(* Properties of Bitmap *)

\* C26: Bitmap::alloc returns the smallest bit index that is clear across
\* all blocks, sets exactly that bit, and returns none, changing nothing,
\* only when every bit of every block is set; after dealloc(b) the next
\* alloc returns b whenever b is lower than every other clear bit.
C26_LowestClear ==
    [][bmp'.op = "alloc" =>
          /\ IF ClearBits(bmp.bm) = {}
             THEN bmp'.bit = NoneBit /\ bmp'.bm = bmp.bm
             ELSE /\ bmp'.bit = Least(ClearBits(bmp.bm))
                  /\ ClearBits(bmp'.bm) = ClearBits(bmp.bm) \ {bmp'.bit}
          /\ (bmp.op = "dealloc" /\ \A c \in ClearBits(bmp.bm) : bmp.bit <= c)
                => bmp'.bit = bmp.bit]_vars

\* alloc has returned a bit of the second block that was deallocated before,
\* with a higher bit allocated and the first block full
C26_Witness ==
    /\ bmp.op = "alloc"
    /\ bmp.bit >= BLOCK_BITS
    /\ BitmapTest(bmp.bm, bmp.bit + 1)
    /\ Holes(bmp.bm) # {}

----------------------------------------------------------------------------
(* Properties of the references to a pipe's write end *)

\* C28: a read on an empty pipe returns only when no reference to the write
\* end remains: no fd-table slot of any process, copies made by fork or dup
\* and slots of the reader's own process included, refers to it and no write
\* on it is in progress; while there is one, the read stays suspended.
C28_EofOnlyWithoutWriters ==
    pw.last.eof => pw.last.slots = {} /\ ~pw.last.writing

\* a read by process 1 has returned at end-of-file after the fork, with the
\* write end closed in both processes
C28_Witness ==
    /\ pw.last.op = "sys_read"
    /\ pw.last.eof
    /\ pw.tab[2] # <<>>
    /\ \E fd \in 1..Len(pw.tab[2]) : pw.tab[2][fd] = "PipeRead"
    /\ \E fd \in 1..Len(pw.tab[1]) : pw.tab[1][fd] = "PipeRead"

----------------------------------------------------------------------------
(* Properties of frozen threads *)

\* thread t is in the loop of handle_signals
InFreezeLoop(g, t) ==
    /\ g.th[t].op = "handle_signals"
    /\ g.th[t].pc \in {"exclusive_access", "flags", "check_in_loop", "suspend"}

\* thread t executes check_pending_signals in this step
Checks(t) ==
    /\ gd.th[t].op = "handle_signals"
    /\ gd.th[t].pc \in {"check_pending_signals", "check_in_loop"}
    /\ gd'.th[t].pc # gd.th[t].pc

\* C30: after an unmasked SIGSTOP has been processed the thread is frozen:
\* handle_signals does not return, and the thread goes through
\* suspend_current_and_run_next on every iteration, until an unmasked SIGCONT
\* is processed, which clears frozen, or killed is set; the SIGSTOP and
\* SIGCONT pending bits are cleared when they are processed.
C30_Frozen ==
    /\ [](\A t \in GThreads :
            (gd.tk[t].frozen /\ ~gd.tk[t].killed) => InFreezeLoop(gd, t))
    /\ [][\A t \in GThreads :
            /\ Checks(t) =>
                 /\ SIGSTOP \in gd.tk[t].signals =>
                       gd'.tk[t].frozen /\ SIGSTOP \notin gd'.tk[t].signals
                 /\ (SIGCONT \in gd.tk[t].signals /\ SIGSTOP \notin gd.tk[t].signals) =>
                       ~gd'.tk[t].frozen /\ SIGCONT \notin gd'.tk[t].signals
                 /\ SIGCONT \in gd.tk[t].signals => SIGCONT \notin gd'.tk[t].signals
                 /\ SIGKILL \in gd.tk[t].signals => gd'.tk[t].killed
            /\ gd'.tk[t].frozen # gd.tk[t].frozen => Checks(t)
            /\ (gd.tk[t].frozen /\ gd'.tk[t].frozen /\ ~gd'.tk[t].killed
                  /\ gd.th[t].pc = "check_in_loop" /\ gd'.th[t].pc # "check_in_loop")
                 => gd'.th[t].pc = "suspend"
            /\ (gd.th[t].op = "handle_signals" /\ gd.th[t].pc # "return"
                  /\ gd'.th[t].pc = "return")
                 => (gd.th[t].pc = "flags" /\ (~gd.tk[t].frozen \/ gd.tk[t].killed))]_vars

\* a frozen thread waits in the ready queue, suspended in the loop of
\* handle_signals, and the running thread has sent it SIGCONT
C30_Witness ==
    /\ gd.cur # 0
    /\ \E t \in GThreads \ {gd.cur} :
          /\ gd.tk[t].frozen
          /\ ~gd.tk[t].killed
          /\ gd.tk[t].signals = {SIGCONT}
          /\ gd.th[t].pc = "exclusive_access"
          /\ t \in SeqRange(gd.rq)


----------------------------------------------------------------------------
(* Properties of the timer heap *)

\* the sequence s lists every element of the set S exactly once
ListsOnce(s, S) ==
    /\ Len(s) = Cardinality(S)
    /\ {s[i] : i \in 1..Len(s)} = S

\* C31: after check_timer ran at time now, no entry with expire_ms <= now is
\* left in the heap, every entry with expire_ms > now is still there, and the
\* threads of the removed entries were appended to the ready queue once per
\* entry, in non-decreasing order of expire_ms
C31_CheckTimer ==
    tm.last.op = "check_timer" =>
        /\ \A e \in tm.timers : e.expire_ms > tm.last.now
        /\ \A e \in tm.last.before : e.expire_ms > tm.last.now => e \in tm.timers
        /\ ListsOnce(tm.last.woken, tm.last.before \ tm.timers)
        /\ \A i, j \in 1..Len(tm.last.woken) :
              i <= j => tm.last.woken[i].expire_ms <= tm.last.woken[j].expire_ms
        /\ tm.rq = tm.last.rq0 \o [i \in 1..Len(tm.last.woken) |-> tm.last.woken[i].task]


----------------------------------------------------------------------------
(* Properties of the mutexes *)

\* the threads between a lock() of the mutex that has returned and their unlock()
Holders(mx) == {t \in LThreads : <<mx, t>> \in lk.own}

\* C32: for MutexSpin and for MutexBlocking, with unlock called by the holder
\* only, at most one thread at a time is between a lock() that has returned
\* and its matching unlock(); the mutex is marked locked while there is one
C32_MutualExclusion ==
    /\ ~lk.conflict
    /\ Cardinality(Holders("spin")) <= 1
    /\ Cardinality(Holders("blocking")) <= 1
    /\ Holders("spin") # {} => lk.spin
    /\ Holders("blocking") # {} => lk.bm.locked

\* one thread holds both mutexes, a second one spins on the MutexSpin and the
\* third one is in the wait queue of the MutexBlocking
C32_Witness ==
    /\ \E t \in LThreads : lk.own = {<<"spin", t>>, <<"blocking", t>>}
    /\ \E t \in LThreads : lk.th[t].op = "spin_lock" /\ lk.at_call.from = "MutexSpin::lock"
    /\ Len(lk.bm.wait_queue) = 1


\* thread t is in MutexBlocking::lock, off the hart since block_current_and_run_next
Blocked(t) ==
    /\ lk.th[t].op = "blocking_lock" /\ lk.th[t].pc = "return"
    /\ lk.cur # t /\ <<"blocking", t>> \notin lk.own

InQueue(q, t) == \E i \in 1..Len(q) : q[i] = t

\* a blocked thread is in the wait queue of the locked mutex, which a holder
\* or an awoken waiter is still to unlock, or it is awake in the ready queue
NoLostWakeup ==
    \A t \in LThreads : Blocked(t) =>
        \/ InQueue(lk.rq, t) /\ ~InQueue(lk.bm.wait_queue, t)
        \/ /\ InQueue(lk.bm.wait_queue, t) /\ ~InQueue(lk.rq, t)
           /\ lk.bm.locked
           /\ \E u \in LThreads \ {t} :
                 <<"blocking", u>> \in lk.own \/ (Blocked(u) /\ InQueue(lk.rq, u))

\* C33: with MutexBlocking, if every holder eventually calls unlock and the
\* idle loop keeps dispatching threads from the ready queue, every thread that
\* called lock() eventually returns from it holding the mutex, and a waiter is
\* never left blocked while the mutex is free or its wake-up has been dropped
C33_NoLostWakeup ==
    /\ []NoLostWakeup
    /\ \A t \in LThreads : lk.th[t].op = "blocking_lock" ~> <<"blocking", t>> \in lk.own

\* unlock has handed the mutex to the first of two waiters: it is awake in the
\* ready queue, the second one is still in the wait queue
C33_Witness ==
    \E t, u \in LThreads :
       /\ t # u /\ Blocked(t) /\ Blocked(u)
       /\ lk.rq = <<t>> /\ lk.bm.wait_queue = <<u>>
       /\ lk.bm.locked /\ Holders("blocking") = {}


----------------------------------------------------------------------------
(* Properties of a read that fills the buffer *)

\* C34: Pipe::read returns as soon as the caller's buffer has been filled
\* completely: it is never suspended, waiting for data or for the write end
\* to be closed, after the last requested byte was delivered
C34_ReturnsWhenFilled == ~(rd.pc = "suspended" /\ rd.size > 0 /\ rd.rem = 0)

----------------------------------------------------------------------------
(* Properties of SIGKILL among other pending signals *)

\* C35: when check_pending_signals runs with SIGKILL pending and unmasked and
\* no handler in progress, killed is set when it returns, whatever other
\* signals are pending and whether or not they have user handlers
C35_KillIsProcessed ==
    (/\ sg.last.op = "check"
     /\ SIGKILL \in sg.last.before.signals \ sg.last.before.signal_mask
     /\ sg.last.before.handling_sig = -1) => task.killed

\* C36: after a user handler was dispatched and sys_sigreturn has completed,
\* signal_mask is what it was immediately before the dispatch
C36_MaskRestored ==
    sg.last.op = "sigreturn" => task.signal_mask = sg.last.entry.mask

----------------------------------------------------------------------------
(* Properties of the threads of an exiting process *)

Listed(tasks) == {tasks[i] : i \in 1..Len(tasks)} \ {0}

\* C38: sys_thread_create returns the tid of the new thread, which differs
\* from the caller's tid and from the tid of every other live thread, and the
\* new thread is in the thread list under that tid, with every thread that
\* was in the list still in it
C38_CreateReturnsNewTid ==
    thLast.op = "thread_create" =>
        \E new \in LiveThreads(pr) \ LiveThreads(thLast.before[1]) :
           /\ thLast.ret = pr.thr[new].tid
           /\ thLast.ret # thLast.tid
           /\ \A t \in LiveThreads(pr) \ {new} : pr.thr[t].tid # thLast.ret
           /\ pr.tasks[thLast.ret + 1] = new
           /\ Listed(thLast.before[1].tasks) \subseteq Listed(pr.tasks)

----------------------------------------------------------------------------
(* Properties of the block ids alloc_data returns *)

\* C39: every block id alloc_data returns lies in the data area of the image:
\* data_area_start_block <= id < total_blocks, up to the call that fails for
\* lack of space
C39_IdInDataArea ==
    da.id # -1 =>
        /\ mkfs.efs.data_area_start_block <= da.id
        /\ da.id < mkfs.super_block.total_blocks

----------------------------------------------------------------------------
(* Properties of the references to data-area blocks *)

\* the places of a disk inode that hold a block id, as the list of the ids in
\* them: the direct entries, indirect1 and indirect2, the entries of the
\* indirect1 block, of the indirect2 block and of the indirect1 blocks under it
\* that the inode's size makes it use
References(ino, blks) ==
    LET s == StoredIds(ino, blks)
        db == data_blocks(ino.size)
    IN  SelectSeq(ino.direct, LAMBDA b : b # 0)
        \o (IF ino.indirect1 # 0 THEN <<ino.indirect1>> ELSE <<>>)
        \o (IF ino.indirect2 # 0 THEN <<ino.indirect2>> ELSE <<>>)
        \o [i \in 1..(db - MinOf(db, DIRECT_BOUND)) |-> s.data[DIRECT_BOUND + i - 1]]
        \o [i \in 1..Cardinality(DOMAIN s.indirect1s) |-> s.indirect1s[i - 1]]

NoDuplicate(q) == Cardinality({q[i] : i \in 1..Len(q)}) = Len(q)

\* C40: after any sequence of create, write_at and clear on any files, no
\* block id is referenced from two places: not twice within one inode and not
\* by two different inodes, as a data block or as an index block
C40_NoSharedBlock ==
    \E refs \in {[id \in DOMAIN disk_inodes |-> References(disk_inodes[id], blocks)]} :
        /\ \A id \in DOMAIN refs : NoDuplicate(refs[id])
        /\ \A id1, id2 \in DOMAIN refs :
              id1 < id2 => NoDuplicate(refs[id1] \o refs[id2])

\* two inodes with blocks of their own, one of them a file grown into the
\* indirect2 region over blocks that a clear had freed
C40_Witness ==
    /\ fsLast.op = "write_at"
    /\ fsLast.reused
    /\ \E id1 \in DOMAIN disk_inodes, id2 \in DOMAIN disk_inodes \ {ROOT_INODE} :
          /\ id1 # id2
          /\ disk_inodes[id1].size > 0
          /\ data_blocks(disk_inodes[id2].size) > INDIRECT1_BOUND
====
